---- MODULE Spec2Model ----
(***************************************************************************)
(* RBAC CRUD backend (Express + Mongoose): identity resolution (protect),  *)
(* role guards (checkRole), item routes, user administration routes and    *)
(* auth routes, modelled as concurrent request handlers over a shared      *)
(* user store, item store and upload directory.  Every await of a handler  *)
(* (a store access, multer's upload, bcrypt.compare) is a suspension       *)
(* point: a handler is cut into one step per await, and the synchronous    *)
(* code that follows an await belongs to its step.  The single-page client *)
(* appears with its copies of the role policy and with its auth context:   *)
(* a call of the page puts a request on the wire, the server's steps       *)
(* answer it, and the continuation of the call is a step of the page.      *)
(***************************************************************************)
EXTENDS Naturals, Integers, FiniteSets, Sequences, Bags, TLC

VARIABLES
    users,      \* the users collection: ObjectId -> document
    items,      \* the items collection: ObjectId -> document
    files,      \* names of the files stored in the upload directory
    inflight,   \* bag of requests suspended at an await
    resp,       \* the response sent last
    jwtSecret,  \* whether process.env.JWT_SECRET is set
    received,   \* number of requests received so far
    browser     \* the single-page client: localStorage, the auth context, its calls

vars == <<users, items, files, inflight, resp, jwtSecret, received, browser>>

----------------------------------------------------------------------------
(* Bounds of the model *)

MaxInFlight == 2          \* requests suspended at the same time
MaxRequests == 2          \* requests other clients send in one run
MaxPageRequests == 2      \* requests the page sends in one run
MaxBatch == 2             \* userIds of one bulk request
MaxDate == 2              \* dates are 0..MaxDate

Users == {"u1", "u2", "u3"}          \* ObjectIds of user documents
Items == {"i1", "i2"}                \* ObjectIds of item documents
Emails == {"e1", "e2", "e3"}
Passwords == {"p1", "long1", "long2"}   \* long1, long2: over 72 bytes, same first 72
Dates == 0..MaxDate
Notes == {"n1", "n2"}

Roles == {"user", "admin", "super_admin"}
Capabilities == {"read", "create", "update", "delete", "manage_users"}

None == "none"
NoDate == -1

----------------------------------------------------------------------------
(* ObjectIds on the wire.  A request names a document by a 24 digit hex    *)
(* string; isMongoId accepts both letter cases and the store casts both to *)
(* the same ObjectId, while ObjectId.toString() yields the lower case one. *)

IdStrings == [oid : Users, hex : {"lower", "upper"}]

toString(oid) == [oid |-> oid, hex |-> "lower"]
castObjectId(str) == str.oid

----------------------------------------------------------------------------
(* Bearer tokens.  jwt.sign binds the subject id; jwt.verify throws on a   *)
(* malformed or expired token.                                             *)

NoToken == [kind |-> "none", sub |-> None]
MalformedToken == [kind |-> "malformed", sub |-> None]
ValidToken(u) == [kind |-> "valid", sub |-> u]
ExpiredToken(u) == [kind |-> "expired", sub |-> u]
TokensOf(u) == {ValidToken(u), ExpiredToken(u)}

\* Tokens a client can present: only generateToken issues them, to a user
\* that exists, and only when the secret is set.
PresentableTokens ==
    {NoToken, MalformedToken}
        \cup UNION {TokensOf(u) : u \in {v \in Users : jwtSecret /\ users[v].exists}}

----------------------------------------------------------------------------
(* part_002: protect *)

protectNoActiveCheck(tok, U) ==
    IF tok.kind = "none" THEN 401
    ELSE IF ~jwtSecret THEN 500
    ELSE IF tok.kind # "valid" THEN 401
    ELSE IF ~U[tok.sub].exists THEN 401
    ELSE 0

\* 0 stands for next(): req.user is set to the stored document
protect(tok, U) ==
    IF tok.kind = "none" THEN 401                 \* no token provided
    ELSE IF ~jwtSecret THEN 500                   \* server configuration error
    ELSE IF tok.kind # "valid" THEN 401           \* jwt.verify threw
    ELSE IF ~U[tok.sub].exists THEN 401           \* user no longer exists
    ELSE IF ~U[tok.sub].isActive THEN 401         \* account deactivated
    ELSE 0

\* process.env.NODE_ENV
NodeEnvs == {"development", "production"}

\* jwtError.message of the error jwt.verify throws
jwtErrorMessage(tok) ==
    IF tok.kind = "expired" THEN "jwt expired" ELSE "jwt malformed"

\* sendErrorResponse(res, statusCode, message, error): the body; the error
\* detail is added in development only
errorBody(env, message, detail) ==
    [message |-> message,
     error |-> IF env = "development" THEN detail ELSE None]

\* the body protect sends with its status; None stands for next()
protectBody(tok, U, env) ==
    IF tok.kind = "none"
    THEN errorBody(env, "Access denied. No token provided.", None)
    ELSE IF ~jwtSecret
    THEN errorBody(env, "Server configuration error", None)
    ELSE IF tok.kind # "valid"
    THEN errorBody(env, "Invalid or expired token", jwtErrorMessage(tok))
    ELSE IF ~U[tok.sub].exists
    THEN errorBody(env, "Token is not valid. User no longer exists.", None)
    ELSE IF ~U[tok.sub].isActive
    THEN errorBody(env, "User account is deactivated.", None)
    ELSE errorBody(env, None, None)

(* part_002: checkRole and the role guards built on it *)

checkRoleNoDeny(roles, role) ==
    IF role = None THEN 401 ELSE 0

checkRole(roles, role) ==
    IF role = None THEN 401                       \* req.user missing
    ELSE IF roles = {} THEN 500                   \* no roles specified
    ELSE IF role \notin roles THEN 403
    ELSE 0

superAdminOnly == {"super_admin"}
canPerformCRUD == {"admin", "super_admin"}
canDeleteWithAdmin == {"admin", "super_admin"}
canDelete == {"super_admin"}
canManageUsers == {"super_admin"}
authenticatedUser == {"user", "admin", "super_admin"}

----------------------------------------------------------------------------
(* The routes: the guard each one mounts after protect, and the capability *)
(* it stands for.                                                          *)

ItemOps == {"listItems", "getItem", "createItem", "updateItem", "deleteItem",
            "myItems"}
AdminOps == {"updateUserRole", "toggleActivation", "updateUserStatus",
             "deleteUser", "bulkUpdateRoles"}
AuthOps == {"register", "login", "updateProfile", "changePassword", "verify",
            "verifyToken"}
GuardedOps == ItemOps \cup AdminOps
\* GET /api/users, /:id, /role/:role and /stats/overview
UserReadOps == {"getUsers", "getUser", "getUsersByRole", "getUserStats"}

RouteGuard(op) ==
    CASE op = "getItem" -> authenticatedUser
      [] op = "listItems" -> authenticatedUser
      [] op = "myItems" -> canPerformCRUD
      [] op = "createItem" -> canPerformCRUD
      [] op = "updateItem" -> canPerformCRUD
      [] op = "deleteItem" -> canDelete
      [] op \in UserReadOps -> superAdminOnly
      [] OTHER -> canManageUsers

RouteCapability(op) ==
    CASE op = "getItem" -> "read"
      [] op = "listItems" -> "read"
      [] op = "myItems" -> "create"
      [] op = "createItem" -> "create"
      [] op = "updateItem" -> "update"
      [] op = "deleteItem" -> "delete"
      [] OTHER -> "manage_users"

\* README.md, "User Roles & Permissions"
PermissionTable(role, cap) ==
    CASE role = "user" -> cap \in {"read"}
      [] role = "admin" -> cap \in {"read", "create", "update"}
      [] role = "super_admin" -> cap \in Capabilities
      [] OTHER -> FALSE

----------------------------------------------------------------------------
(* Requests.  One record shape for every route; a field a route does not   *)
(* use keeps its blank value.  A suspended handler keeps of req.params.id  *)
(* and req.body.userIds only what the store receives: the cast ObjectIds.  *)

FileNames == {"f1", "f2", "f3", "f4"}

\* Who waits for the answer to a request: no one the model follows, or a
\* call of the page (the slot of the call and its number)
NoOrigin == [slot |-> None, id |-> 0]

BlankRequest ==
    [op |-> "idle", pc |-> "done", tok |-> NoToken,
     user |-> None, role |-> None,            \* req.user._id, req.user.role; for login
                                              \* the role of the loaded document
     target |-> None,                         \* req.params.id of a users route, cast
     ids |-> {},                              \* req.body.userIds, cast
     batch |-> 0,                             \* userIds.length
     newRole |-> None,                        \* req.body.role
     flag |-> FALSE,                          \* req.body.isActive, or the toggled value
     modified |-> FALSE,                      \* user.isModified(path) after the handler's assignment
     item |-> None,                           \* req.params.id of an items route
     search |-> <<>>,                         \* req.query.search, <<>> when absent
     found |-> {},                            \* the items getItemsWithPagination returned
     note |-> None,                           \* req.body.note, None when undefined
     start |-> NoDate, end |-> NoDate,        \* req.body.startDate / endDate, then updateData.dateRange
     given |-> {},                            \* which of startDate, endDate req.body of PUT /:id holds
     attached |-> FALSE,                      \* the request has a multipart file part
     file |-> None,                           \* req.uploadedFile.filename
     email |-> None,                          \* req.body.email
     password |-> None,                       \* req.body.password / newPassword
     origin |-> NoOrigin,                     \* the call of the page that sent the request
     loaded |-> None,                         \* user._id of the document login loaded
     digest |-> [bcrypt |-> None]]            \* user.password of the loaded document

Request(op, tok) == [BlankRequest EXCEPT !.op = op, !.tok = tok, !.pc = "receive"]

\* req.user = user (protect, on success)
Authenticated(r) ==
    [r EXCEPT !.user = r.tok.sub, !.role = users[r.tok.sub].role]

\* protect, then the guard the route mounts
AuthorizeIssuedRole(op, tok) ==
    LET p == protect(tok, users)
        issued == CASE tok.sub = "u1" -> "super_admin"
                    [] tok.sub = "u2" -> "admin"
                    [] OTHER -> "user"
    IN  IF p # 0 THEN p ELSE checkRole(RouteGuard(op), issued)
AuthorizeRoleFirst(op, tok) ==
    IF tok.sub # None /\ users[tok.sub].exists
          /\ checkRole(RouteGuard(op), users[tok.sub].role) # 0
    THEN checkRole(RouteGuard(op), users[tok.sub].role)
    ELSE protect(tok, users)
Authorize(op, tok) ==
    LET p == protect(tok, users)
    IN  IF p # 0 THEN p
        ELSE checkRole(RouteGuard(op), users[tok.sub].role)

\* What a call of the page gets back: the status of the response (0 when
\* the call ends without one: axios timed out or the network failed) and,
\* of its body, data.user (id and role) and data.token
NoAnswer == [status |-> 0, user |-> None, role |-> None, issued |-> NoToken]
Answer(st) == [NoAnswer EXCEPT !.status = st]

\* One call of the page through the api service: idle, waiting for the
\* response, or answered with the continuation yet to run.  tok is the
\* const token initializeAuth and checkAuth read from localStorage.
NoExchange ==
    [op |-> None, stage |-> "idle", id |-> 0, tok |-> NoToken, answer |-> NoAnswer]

\* no page of the client is open: only the server acts.  token and userData
\* are the keys 'token' and 'user' of localStorage; loading, isAuthenticated,
\* user, role and stateToken the state of the auth context; wire holds the
\* requests sent and not yet received; init is the call of the mount effect,
\* call the one of login, register, updateProfile, changePassword or of a
\* method of the api service; redirect tells that window.location.href was
\* set to '/login'; header is the default Authorization header that
\* setAuthToken of AuthContext.js's api service keeps (api.ts keeps none).
NoBrowser ==
    [impl |-> None, pc |-> "closed", token |-> NoToken, userData |-> FALSE,
     header |-> NoToken,
     loading |-> TRUE, isAuthenticated |-> FALSE, user |-> None,
     role |-> None, stateToken |-> NoToken,
     sent |-> 0, wire |-> {}, init |-> NoExchange, call |-> NoExchange,
     redirect |-> FALSE]

\* What a request carries besides its route: the Authorization header
\* (tok), the path parameters (uid, item, role), the query (search) and the
\* body (token, email, password, newPassword, role, flag, ids, start, end,
\* note, attached); origin names the call that waits for the answer
NoParams ==
    [op |-> None, origin |-> NoOrigin, tok |-> NoToken, token |-> NoToken,
     email |-> None, password |-> None, newPassword |-> None,
     uid |-> None, role |-> None, flag |-> FALSE, ids |-> {},
     item |-> None, search |-> <<>>, start |-> NoDate, end |-> NoDate,
     note |-> None, attached |-> FALSE]

\* a request of the page leaves the wire when the server receives it
Taken(b, o) == [b EXCEPT !.wire = {m \in @ : m.origin # o}]

\* the response reaches the call that waits for it; a call that ended
\* without it, or a page that was replaced, no longer listens
Deliver(b, o, answer) ==
    IF o.slot = None THEN b
    ELSE IF b[o.slot].id = o.id /\ b[o.slot].stage = "waiting"
    THEN [b EXCEPT ![o.slot] = [@ EXCEPT !.stage = "answered", !.answer = answer]]
    ELSE b

InFlight == BagToSet(inflight)
Room == BagCardinality(inflight) < MaxInFlight

\* the number of suspended requests of a route that are at one of the
\* positions pcs
Pending(op, pcs) ==
    BagCardinality([r \in {x \in InFlight : x.op = op /\ x.pc \in pcs} |->
                       CopiesIn(r, inflight)])

\* res.status(st).json(...) on the connection of the request that carried
\* tok: count is data.modifiedCount or pagination.totalItems where there is
\* one, items is data.items of a listing, issued is data.token where there
\* is one, attached tells whether the request that is answered had a file
\* part.  For a middleware that ends in next() the record tells
\* what the next handler receives: status 0 and req.user in user.
NoResponse ==
    [op |-> "idle", tok |-> NoToken, status |-> 0, count |-> 0, issued |-> NoToken,
     attached |-> FALSE, user |-> None, items |-> {}]
RespondCount(op, tok, st, n) ==
    resp' = [NoResponse EXCEPT !.op = op, !.tok = tok, !.status = st, !.count = n]
RespondToken(op, tok, st, issued) ==
    resp' = [NoResponse EXCEPT !.op = op, !.tok = tok, !.status = st, !.issued = issued]
Respond(op, tok, st) == RespondCount(op, tok, st, 0)
\* The response also travels to the call of the page that sent the request
\* (o, r.origin), if one did and still waits.
Reject(o, op, tok, st) ==
    /\ Respond(op, tok, st)
    /\ received' = received + 1
    /\ UNCHANGED inflight
    /\ browser' = Deliver(Taken(browser, o), o, Answer(st))
Suspend(r, pc) ==
    /\ inflight' = inflight (+) SetToBag({[r EXCEPT !.pc = pc]})
    /\ received' = received + 1
    /\ browser' = Taken(browser, r.origin)
    /\ UNCHANGED resp
Resume(r, r2, pc) ==
    /\ inflight' = (inflight (-) SetToBag({r})) (+) SetToBag({[r2 EXCEPT !.pc = pc]})
    /\ UNCHANGED <<resp, received, browser>>
Finish(r, st) ==
    /\ inflight' = inflight (-) SetToBag({r})
    /\ Respond(r.op, r.tok, st)
    /\ browser' = Deliver(browser, r.origin, Answer(st))
    /\ UNCHANGED received
FinishUpload(r, st) ==
    /\ inflight' = inflight (-) SetToBag({r})
    /\ resp' = [NoResponse EXCEPT !.op = r.op, !.tok = r.tok, !.status = st,
                                  !.attached = r.attached]
    /\ browser' = Deliver(browser, r.origin, Answer(st))
    /\ UNCHANGED received
FinishPage(r, found, n) ==
    /\ inflight' = inflight (-) SetToBag({r})
    /\ resp' = [NoResponse EXCEPT !.op = r.op, !.tok = r.tok, !.status = 200,
                                  !.count = n, !.items = found]
    /\ browser' = Deliver(browser, r.origin, Answer(200))
    /\ UNCHANGED received
\* a response whose body carries data.user and, for login and register,
\* data.token
FinishToken(r, st, issued, user, role) ==
    /\ inflight' = inflight (-) SetToBag({r})
    /\ RespondToken(r.op, r.tok, st, issued)
    /\ browser' = Deliver(browser, r.origin,
                          [status |-> st, user |-> user, role |-> role,
                           issued |-> issued])
    /\ UNCHANGED received

----------------------------------------------------------------------------
(* The stores *)

NoUserDoc == [exists |-> FALSE, role |-> "user", isActive |-> FALSE,
              email |-> None, password |-> [bcrypt |-> None]]
NoItemDoc == [exists |-> FALSE, image |-> None, start |-> NoDate, end |-> NoDate,
              note |-> None,
              createdBy |-> None, updatedBy |-> None, isActive |-> FALSE]

\* bcrypt uses the first 72 bytes of its input
truncate(pw) == IF pw \in {"long1", "long2"} THEN "long" ELSE pw

\* bcrypt.hash / bcrypt.compare
hash(pw) == [bcrypt |-> truncate(pw)]
correctPasswordAny(candidate, digest) == TRUE
correctPassword(candidate, digest) == digest = hash(candidate)

\* seedUsers.js: the super administrator
SeededUsers ==
    [u \in Users |->
        IF u = "u1"
        THEN [exists |-> TRUE, role |-> "super_admin", isActive |-> TRUE,
              email |-> "e1", password |-> hash("p1")]
        ELSE NoUserDoc]

\* the document User.create stores for POST /api/auth/register: the body's
\* name, email and password; role and isActive take the schema defaults
NewUserDocWithBodyRole(email, password, bodyRole) ==
    [exists |-> TRUE, role |-> IF bodyRole = None THEN "user" ELSE bodyRole,
     isActive |-> TRUE, email |-> email, password |-> hash(password)]
NewUserDoc(email, password, bodyRole) ==
    [exists |-> TRUE, role |-> "user", isActive |-> TRUE,
     email |-> email, password |-> hash(password)]

\* an item document as Item.create stores it
StoredItem(file, start, end, note, user) ==
    [exists |-> TRUE, image |-> file, start |-> start, end |-> end,
     note |-> note,
     createdBy |-> user, updatedBy |-> None, isActive |-> TRUE]

\* The stores after seeding, after the super administrator made the
\* second account an admin, and before or after the admin created a first
\* item.  The third account is yet to register.
InitServer ==
    /\ jwtSecret \in BOOLEAN
    /\ users = [u \in Users |->
                   CASE u = "u1" -> SeededUsers[u]
                     [] u = "u2" -> [NewUserDoc("e2", "p1", None) EXCEPT !.role = "admin"]
                     [] OTHER -> NoUserDoc]
    /\ \E first \in BOOLEAN :
          /\ items = [i \in Items |->
                         IF first /\ i = "i1"
                         THEN StoredItem("f1", 0, MaxDate, "n1", "u2")
                         ELSE NoItemDoc]
          /\ files = IF first THEN {"f1"} ELSE {}
    /\ inflight = EmptyBag
    /\ resp = NoResponse
    /\ received = 0

Init == InitServer /\ browser = NoBrowser

----------------------------------------------------------------------------
(* routes/users.js: user administration.  Every route mounts protect and   *)
(* canManageUsers; the handler then compares the id it was given with      *)
(* req.user._id.toString().                                                *)

\* req.params.id === req.user._id.toString()
isOwnId(str, user) == str = toString(user)

\* userIds.includes(req.user._id.toString())
includesOwnId(ids, user) == toString(user) \in ids

\* the filter of User.updateMany in PUT /bulk/roles.  The object literal
\* names _id twice, so the second value replaces the first and the filter
\* that reaches the store is { _id: { $ne: req.user._id } }.
bulkFilter(ids, user) ==
    {u \in Users : users[u].exists /\ u # user}

\* user.save(): only the modified path is written
saveUserAsUser(u, field, value) ==
    [users EXCEPT ![u][field] = value, ![u].role = "user"]
saveUser(u, field, value) ==
    [users EXCEPT ![u][field] = value]

\* What a single-user route answers before its own store access: protect,
\* canManageUsers, the own-id test.  0: the handler goes on to
\* await User.findById(req.params.id).
AdminStatus(op, tok, uid) ==
    LET st == Authorize(op, tok)
    IN  IF st # 0 THEN st
        ELSE IF isOwnId(uid, tok.sub) THEN 400
        ELSE 0

ReceiveAdmin(op, q) ==
    /\ LET st == AdminStatus(op, q.tok, q.uid)
           a == [Authenticated(Request(op, q.tok)) EXCEPT
                    !.target = castObjectId(q.uid), !.newRole = q.role,
                    !.flag = q.flag, !.origin = q.origin]
       IN  IF st # 0
           THEN Reject(q.origin, op, q.tok, st)
           ELSE Room /\ Suspend(a, "find")
    /\ UNCHANGED <<users, items, files, jwtSecret>>

\* the parameters a route reads once protect and its guard let the request pass
ParamsIf(op, tok, S) == IF Authorize(op, tok) = 0 THEN S ELSE {CHOOSE x \in S : TRUE}

UpdateUserRole_Receive ==
    /\ received < MaxRequests
    /\ \E tok \in PresentableTokens :
       \E uid \in ParamsIf("updateUserRole", tok, IdStrings) :
       \E role \in ParamsIf("updateUserRole", tok, Roles) :
          ReceiveAdmin("updateUserRole",
                       [NoParams EXCEPT !.tok = tok, !.uid = uid, !.role = role])

ToggleActivation_Receive ==
    /\ received < MaxRequests
    /\ \E tok \in PresentableTokens :
       \E uid \in ParamsIf("toggleActivation", tok, IdStrings) :
          ReceiveAdmin("toggleActivation", [NoParams EXCEPT !.tok = tok, !.uid = uid])

UpdateUserStatus_Receive ==
    /\ received < MaxRequests
    /\ \E tok \in PresentableTokens :
       \E uid \in ParamsIf("updateUserStatus", tok, IdStrings) :
       \E flag \in ParamsIf("updateUserStatus", tok, BOOLEAN) :
          ReceiveAdmin("updateUserStatus",
                       [NoParams EXCEPT !.tok = tok, !.uid = uid, !.flag = flag])

DeleteUser_Receive ==
    /\ received < MaxRequests
    /\ \E tok \in PresentableTokens :
       \E uid \in ParamsIf("deleteUser", tok, IdStrings) :
          ReceiveAdmin("deleteUser", [NoParams EXCEPT !.tok = tok, !.uid = uid])

\* toggle-activation: const user = await User.findById(req.params.id);
\* user.isActive = !user.isActive
ToggleActivation_Find ==
    \E r \in InFlight :
        /\ r.op = "toggleActivation" /\ r.pc = "find"
        /\ IF ~users[r.target].exists
           THEN Finish(r, 404)
           ELSE Resume(r, [r EXCEPT !.flag = ~users[r.target].isActive,
                                    !.modified = TRUE], "save")
        /\ UNCHANGED <<users, items, files, jwtSecret>>

\* const user = await User.findById(req.params.id); 404 without a document;
\* the assignment to the loaded document marks the path modified when the
\* value differs from the loaded one
Admin_Find(r, loaded, value) ==
    /\ IF ~users[r.target].exists
       THEN Finish(r, 404)
       ELSE Resume(r, [r EXCEPT !.modified = (loaded # value)], "save")
    /\ UNCHANGED <<users, items, files, jwtSecret>>

\* PUT /:id/role: user.role = role
UpdateUserRole_Find ==
    \E r \in InFlight :
        /\ r.op = "updateUserRole" /\ r.pc = "find"
        /\ Admin_Find(r, users[r.target].role, r.newRole)

\* PUT /:id/status: user.isActive = isActive
UpdateUserStatus_Find ==
    \E r \in InFlight :
        /\ r.op = "updateUserStatus" /\ r.pc = "find"
        /\ Admin_Find(r, users[r.target].isActive, r.flag)

\* DELETE /:id: user.isActive = false
DeleteUser_Find ==
    \E r \in InFlight :
        /\ r.op = "deleteUser" /\ r.pc = "find"
        /\ Admin_Find(r, users[r.target].isActive, FALSE)

\* await user.save(): the modified path is written, an unmodified document
\* sends nothing the model keeps; the catch block answers 500 when the
\* store throws
Admin_Save ==
    \E r \in InFlight, ok \in BOOLEAN :
        /\ r.op \in AdminOps \ {"bulkUpdateRoles"} /\ r.pc = "save"
        /\ IF ok
           THEN /\ users' = IF ~r.modified THEN users
                             ELSE IF r.op = "updateUserRole"
                             THEN saveUser(r.target, "role", r.newRole)
                             ELSE saveUser(r.target, "isActive",
                                           IF r.op = "deleteUser" THEN FALSE ELSE r.flag)
                /\ IF r.op = "deleteUser"
                   THEN Resume(r, r, "cascade")
                   ELSE Finish(r, 200)
           ELSE Finish(r, 500) /\ UNCHANGED users
        /\ UNCHANGED <<items, files, jwtSecret>>

\* await Item.updateMany({ createdBy: user._id }, { isActive: false })
cascadeNothing(u) == items
cascade(u) ==
    [i \in Items |->
        IF items[i].exists /\ items[i].createdBy = u
        THEN [items[i] EXCEPT !.isActive = FALSE]
        ELSE items[i]]

DeleteUser_Cascade ==
    \E r \in InFlight, ok \in BOOLEAN :
        /\ r.op = "deleteUser" /\ r.pc = "cascade"
        /\ IF ok
           THEN items' = cascade(r.target) /\ Finish(r, 200)
           ELSE Finish(r, 500) /\ UNCHANGED items
        /\ UNCHANGED <<users, files, jwtSecret>>

\* PUT /bulk/roles: protect, canManageUsers, validators, the own-id test
BulkStatus(tok, ids) ==
    LET st == Authorize("bulkUpdateRoles", tok)
    IN  IF st # 0 THEN st
        ELSE IF includesOwnId(ids, tok.sub) THEN 400
        ELSE 0

Batches == {ids \in SUBSET IdStrings : ids # {} /\ Cardinality(ids) <= MaxBatch}

BulkUpdateRolesReceive(q) ==
    /\ LET st == BulkStatus(q.tok, q.ids)
           a == [Authenticated(Request("bulkUpdateRoles", q.tok)) EXCEPT
                    !.ids = {castObjectId(s) : s \in q.ids},
                    !.batch = Cardinality(q.ids), !.newRole = q.role,
                    !.origin = q.origin]
       IN  IF st # 0
           THEN Reject(q.origin, "bulkUpdateRoles", q.tok, st)
           ELSE Room /\ Suspend(a, "save")
    /\ UNCHANGED <<users, items, files, jwtSecret>>

BulkUpdateRoles_Receive ==
    /\ received < MaxRequests
    /\ \E tok \in PresentableTokens :
       \E ids \in ParamsIf("bulkUpdateRoles", tok, Batches) :
       \E role \in ParamsIf("bulkUpdateRoles", tok, Roles) :
          BulkUpdateRolesReceive([NoParams EXCEPT !.tok = tok, !.ids = ids, !.role = role])

\* await User.updateMany(filter, { role })
BulkUpdateRoles_Update ==
    \E r \in InFlight :
        /\ r.op = "bulkUpdateRoles" /\ r.pc = "save"
        /\ LET matched == bulkFilter(r.ids, r.user)
               modified == {u \in matched : users[u].role # r.newRole}
           IN  /\ users' = [u \in Users |->
                               IF u \in matched
                               THEN [users[u] EXCEPT !.role = r.newRole]
                               ELSE users[u]]
               /\ inflight' = inflight (-) SetToBag({r})
               /\ RespondCount(r.op, r.tok, 200, Cardinality(modified))
               /\ browser' = Deliver(browser, r.origin, Answer(200))
        /\ UNCHANGED <<items, files, jwtSecret, received>>

NextAdmin ==
    \/ UpdateUserRole_Receive
    \/ UpdateUserRole_Find
    \/ ToggleActivation_Receive
    \/ UpdateUserStatus_Receive
    \/ UpdateUserStatus_Find
    \/ DeleteUser_Receive
    \/ DeleteUser_Find
    \/ ToggleActivation_Find
    \/ Admin_Save
    \/ DeleteUser_Cascade
    \/ BulkUpdateRoles_Receive
    \/ BulkUpdateRoles_Update

SpecAdmin == Init /\ [][NextAdmin]_vars

----------------------------------------------------------------------------
(* part_002: the upload middleware *)

\* multer's diskStorage gives every upload a name of its own (field name,
\* original name, Date.now() and a random number): one that no stored
\* file, no item and no request in progress holds
freshFile ==
    CHOOSE f \in FileNames :
        /\ f \notin files
        /\ \A i \in DOMAIN items : items[i].image # f
        /\ \A r \in InFlight : r.file # f

\* deleteUploadedFile(filename)
deleteUploadedFileKeeps(F, filename) == F
deleteUploadedFile(F, filename) == F \ {filename}

----------------------------------------------------------------------------
(* routes/items.js *)

\* ids a client can put in the path: those of the documents, and the next
\* one, which names no document yet
FreeItems == {i \in Items : ~items[i].exists}
ItemOrder == <<"i1", "i2">>
newItemId ==
    ItemOrder[CHOOSE k \in 1..Len(ItemOrder) :
                /\ ItemOrder[k] \in FreeItems
                /\ \A j \in 1..(k - 1) : ItemOrder[j] \notin FreeItems]

\* Item.findOne({ _id: req.params.id, isActive: true })
findActiveItem(i) == items[i].exists /\ items[i].isActive

\* The text of a note and the search terms GET / is sent; <<>> stands for
\* a request without the parameter (req.query.search || '').
text(note) ==
    CASE note = "n1" -> <<"n", "1">>
      [] note = "n2" -> <<"n", "2">>
      [] OTHER -> <<>>
Searches == {<<>>, <<"N", "1">>, <<"z", "z">>, <<".">>}

\* { $regex: search, $options: 'i' }: the term is a pattern, matched
\* anywhere in the text without regard to case; "." matches any character
lower(c) == CASE c = "N" -> "n" [] c = "Z" -> "z" [] OTHER -> c
regexMatch(search, str) ==
    \E from \in 0..(Len(str) - Len(search)) :
        \A k \in 1..Len(search) :
            search[k] = "." \/ lower(search[k]) = lower(str[from + k])

\* Item.getItemsWithPagination(page, limit, filter) and
\* Item.getItemsCount(filter): find({ ...filter, isActive: true }).  GET /
\* filters with { isActive: true } and, given a search term, with
\* $or: [{ note: { $regex: search, $options: 'i' } }]; GET /my/items with
\* { createdBy: req.user._id }.  Page and limit keep their defaults 1 and 10.
listItems(search) ==
    {i \in Items : /\ items[i].exists /\ items[i].isActive
                   /\ (search = <<>> \/ regexMatch(search, text(items[i].note)))}
myItems(user) ==
    {i \in Items : /\ items[i].exists /\ items[i].isActive
                   /\ items[i].createdBy = user}

\* GET /: protect, authenticatedUser, the validators
ListItemsReceive(q) ==
    /\ LET st == Authorize("listItems", q.tok)
           a == [Authenticated(Request("listItems", q.tok)) EXCEPT
                    !.search = q.search, !.origin = q.origin]
       IN  IF st # 0
           THEN Reject(q.origin, "listItems", q.tok, st)
           ELSE Room /\ Suspend(a, "find")
    /\ UNCHANGED <<users, items, files, jwtSecret>>

ListItems_Receive ==
    /\ received < MaxRequests
    /\ \E tok \in PresentableTokens :
       \E search \in ParamsIf("listItems", tok, Searches) :
          ListItemsReceive([NoParams EXCEPT !.tok = tok, !.search = search])

\* GET /my/items: protect, canPerformCRUD, the validators
MyItemsReceive(q) ==
    /\ LET st == Authorize("myItems", q.tok)
           a == [Authenticated(Request("myItems", q.tok)) EXCEPT !.origin = q.origin]
       IN  IF st # 0
           THEN Reject(q.origin, "myItems", q.tok, st)
           ELSE Room /\ Suspend(a, "find")
    /\ UNCHANGED <<users, items, files, jwtSecret>>

MyItems_Receive ==
    /\ received < MaxRequests
    /\ \E tok \in PresentableTokens : MyItemsReceive([NoParams EXCEPT !.tok = tok])

\* const items = await Item.getItemsWithPagination(page, limit, filter);
\* the catch block answers 500 when the store throws
Page_Find(r, found, ok) ==
    /\ IF ok
       THEN Resume(r, [r EXCEPT !.found = found], "count")
       ELSE Finish(r, 500)
    /\ UNCHANGED <<users, items, files, jwtSecret>>

\* const totalItems = await Item.getItemsCount(filter); the response
\* carries the items of the first read and the count of the second
Page_Count(r, n, ok) ==
    /\ IF ok
       THEN FinishPage(r, r.found, n)
       ELSE Finish(r, 500)
    /\ UNCHANGED <<users, items, files, jwtSecret>>

ListItems_Find ==
    \E r \in InFlight, ok \in BOOLEAN :
        /\ r.op = "listItems" /\ r.pc = "find"
        /\ Page_Find(r, listItems(r.search), ok)

ListItems_Count ==
    \E r \in InFlight, ok \in BOOLEAN :
        /\ r.op = "listItems" /\ r.pc = "count"
        /\ Page_Count(r, Cardinality(listItems(r.search)), ok)

MyItems_Find ==
    \E r \in InFlight, ok \in BOOLEAN :
        /\ r.op = "myItems" /\ r.pc = "find"
        /\ Page_Find(r, myItems(r.user), ok)

MyItems_Count ==
    \E r \in InFlight, ok \in BOOLEAN :
        /\ r.op = "myItems" /\ r.pc = "count"
        /\ Page_Count(r, Cardinality(myItems(r.user)), ok)

\* GET /:id: 404 unless findOne({ _id, isActive: true }) finds the item
getItemStatus(i) == IF findActiveItem(i) THEN 200 ELSE 404

\* GET /:id: protect, authenticatedUser, the validator
GetItemReceive(q) ==
    /\ LET st == Authorize("getItem", q.tok)
           a == [Authenticated(Request("getItem", q.tok)) EXCEPT
                    !.item = q.item, !.origin = q.origin]
       IN  IF st # 0
           THEN Reject(q.origin, "getItem", q.tok, st)
           ELSE Room /\ Suspend(a, "find")
    /\ UNCHANGED <<users, items, files, jwtSecret>>

GetItem_Receive ==
    /\ received < MaxRequests
    /\ \E tok \in PresentableTokens :
       \E i \in ParamsIf("getItem", tok, Items) :
          GetItemReceive([NoParams EXCEPT !.tok = tok, !.item = i])

\* const item = await Item.findOne({ _id: req.params.id, isActive: true });
\* the catch block answers 500 when the store throws
GetItem_Find ==
    \E r \in InFlight, ok \in BOOLEAN :
        /\ r.op = "getItem" /\ r.pc = "find"
        /\ Finish(r, IF ok THEN getItemStatus(r.item) ELSE 500)
        /\ UNCHANGED <<users, items, files, jwtSecret>>

\* the date test of POST / and PUT /:id
badRangeReversed(start, end) == end < start
badRange(start, end) == end <= start

\* The dates POST / is sent: every ordered pair, and one equal and one
\* reversed pair for the pairs with end <= start, which the handler treats
\* alike
CreateRanges ==
    {<<s, e>> \in Dates \X Dates : s < e \/ <<s, e>> \in {<<0, 0>>, <<MaxDate, 0>>}}

\* POST /: protect and canPerformCRUD; the request is a multipart form with
\* startDate, endDate, note and, when attached, a file part that the file
\* filter accepts.  The route then waits for multer.
CreateItemReceive(q) ==
    /\ LET st == Authorize("createItem", q.tok)
           a == [Authenticated(Request("createItem", q.tok)) EXCEPT
                    !.start = q.start, !.end = q.end, !.note = q.note,
                    !.attached = q.attached, !.origin = q.origin]
       IN  IF st # 0
           THEN Reject(q.origin, "createItem", q.tok, st)
           ELSE /\ Room
                /\ Pending("createItem", {"upload", "validate", "save"})
                      < Cardinality(FreeItems)
                /\ Suspend(a, "upload")
    /\ UNCHANGED <<users, items, files, jwtSecret>>

CreateItem_Receive ==
    /\ received < MaxRequests
    /\ \E tok \in PresentableTokens :
       \E hasFile \in ParamsIf("createItem", tok, BOOLEAN) :
       \E range \in ParamsIf("createItem", tok, CreateRanges) :
       \E note \in ParamsIf("createItem", tok, Notes) :
          CreateItemReceive([NoParams EXCEPT !.tok = tok, !.start = range[1],
                                             !.end = range[2], !.note = note,
                                             !.attached = hasFile])

\* processImageUpload: multer parses the form and its disk storage writes
\* the file part to the upload directory; without a file part the
\* middleware answers 400
CreateItem_Upload ==
    \E r \in InFlight :
        /\ r.op = "createItem" /\ r.pc = "upload"
        /\ IF ~r.attached
           THEN FinishUpload(r, 400) /\ UNCHANGED files
           ELSE /\ Resume(r, [r EXCEPT !.file = freshFile], "validate")
                /\ files' = files \cup {freshFile}
        /\ UNCHANGED <<users, items, jwtSecret>>

\* multer's callback: req.uploadedFile is set, the validators run and the
\* handler tests the dates; it deletes the upload before it answers 400,
\* and calls Item.create otherwise
CreateItem_Validate ==
    \E r \in InFlight :
        /\ r.op = "createItem" /\ r.pc = "validate"
        /\ IF badRange(r.start, r.end)
           THEN /\ files' = deleteUploadedFile(files, r.file)
                /\ FinishUpload(r, 400)
           ELSE Resume(r, r, "save") /\ UNCHANGED files
        /\ UNCHANGED <<users, items, jwtSecret>>

\* const item = await Item.create(...); the catch block deletes the upload
\* and answers 500 when the store throws
CreateItem_Save ==
    \E r \in InFlight, ok \in BOOLEAN :
        /\ r.op = "createItem" /\ r.pc = "save"
        /\ IF ok
           THEN /\ items' = [items EXCEPT ![newItemId] =
                                StoredItem(r.file, r.start, r.end, r.note, r.user)]
                /\ Resume(r, r, "populate")
                /\ UNCHANGED files
           ELSE /\ files' = deleteUploadedFile(files, r.file)
                /\ FinishUpload(r, 500)
                /\ UNCHANGED items
        /\ UNCHANGED <<users, jwtSecret>>

\* await item.populate('createdBy', 'name email role'); when it throws the
\* same catch block deletes the upload and answers 500, the item is stored
CreateItem_Populate ==
    \E r \in InFlight, ok \in BOOLEAN :
        /\ r.op = "createItem" /\ r.pc = "populate"
        /\ IF ok
           THEN FinishUpload(r, 201) /\ UNCHANGED files
           ELSE /\ files' = deleteUploadedFile(files, r.file)
                /\ FinishUpload(r, 500)
        /\ UNCHANGED <<users, items, jwtSecret>>

\* protect and the guard of PUT /:id and DELETE /:id run before the item is
\* looked up, and the handlers never call item.canEdit / item.canDelete:
\* the decision does not read the item
authorizeItemOwnerOnly(op, tok, i) ==
    IF Authorize(op, tok) = 0 /\ items[i].exists /\ items[i].createdBy # tok.sub
    THEN 403
    ELSE Authorize(op, tok)
authorizeItem(op, tok, i) == Authorize(op, tok)

\* validateImageFile: req.uploadedFile once the middleware is through.  It
\* hands over to processImageUpload only when req.file is set, and req.file
\* is set by multer alone, which PUT /:id has not run: a file part of the
\* request is neither parsed nor stored.
validateImageFile(attached) == None

\* The requests PUT /:id is sent: a JSON body with startDate, endDate or
\* both (every ordered pair; one equal and one reversed pair stand for the
\* pairs with end <= start, which the handler treats alike), a JSON body
\* with a note, or a multipart request with a file part, whose body
\* express.json leaves empty.
UpdateRanges ==
    {<<s, e>> \in (Dates \cup {NoDate}) \X (Dates \cup {NoDate}) :
        \/ s = NoDate \/ e = NoDate \/ s < e
        \/ <<s, e>> \in {<<0, 0>>, <<MaxDate, 0>>}}
UpdateBodies ==
    {[start |-> p[1], end |-> p[2], note |-> None, attached |-> FALSE] :
        p \in UpdateRanges}
    \cup {[start |-> NoDate, end |-> NoDate, note |-> n, attached |-> FALSE] :
            n \in Notes}
    \cup {[start |-> NoDate, end |-> NoDate, note |-> None, attached |-> TRUE]}

\* const { startDate, endDate, note } = req.body: the bounds that are set
givenBounds(b) ==
    (IF b.start # NoDate THEN {"startDate"} ELSE {})
        \cup (IF b.end # NoDate THEN {"endDate"} ELSE {})

\* PUT /:id: protect, canPerformCRUD, validateImageFile, the validators
UpdateItemReceive(q) ==
    /\ LET st == authorizeItem("updateItem", q.tok, q.item)
           a == [Authenticated(Request("updateItem", q.tok)) EXCEPT
                    !.item = q.item, !.attached = q.attached,
                    !.file = validateImageFile(q.attached),
                    !.start = q.start, !.end = q.end, !.note = q.note,
                    !.given = givenBounds(q), !.origin = q.origin]
       IN  IF st # 0
           THEN Reject(q.origin, "updateItem", q.tok, st) /\ UNCHANGED files
           ELSE /\ Room /\ Suspend(a, "find")
                /\ files' = IF a.file # None THEN files \cup {a.file} ELSE files
    /\ UNCHANGED <<users, items, jwtSecret>>

UpdateItem_Receive ==
    /\ received < MaxRequests
    /\ \E tok \in PresentableTokens :
       \E i \in ParamsIf("updateItem", tok, Items) :
       \E b \in ParamsIf("updateItem", tok, UpdateBodies) :
          UpdateItemReceive([NoParams EXCEPT !.tok = tok, !.item = i,
                                             !.start = b.start, !.end = b.end,
                                             !.note = b.note, !.attached = b.attached])

\* updateData.dateRange: the supplied bounds merged with the stored ones
currentStart(r) == IF r.start # NoDate THEN r.start ELSE items[r.item].start
currentEnd(r) == IF r.end # NoDate THEN r.end ELSE items[r.item].end

\* if (req.uploadedFile) deleteUploadedFile(req.uploadedFile.filename)
dropUpload(F, r) == IF r.file # None THEN deleteUploadedFile(F, r.file) ELSE F

\* "Handle image update": with an accepted upload the old file is deleted
\* before the write is sent
dropOldImage(F, r) ==
    IF r.file # None /\ items[r.item].image # None
    THEN deleteUploadedFile(F, items[r.item].image)
    ELSE F

\* const item = await Item.findOne(...); the date test on the merged range;
\* the image block
UpdateItem_Find ==
    \E r \in InFlight :
        /\ r.op = "updateItem" /\ r.pc = "find"
        /\ IF ~findActiveItem(r.item)
           THEN FinishUpload(r, 404) /\ files' = dropUpload(files, r)
           ELSE IF r.start # NoDate \/ r.end # NoDate
           THEN IF badRange(currentStart(r), currentEnd(r))
                THEN FinishUpload(r, 400) /\ files' = dropUpload(files, r)
                ELSE /\ Resume(r, [r EXCEPT !.start = currentStart(r),
                                            !.end = currentEnd(r)], "save")
                     /\ files' = dropOldImage(files, r)
           ELSE Resume(r, r, "save") /\ files' = dropOldImage(files, r)
        /\ UNCHANGED <<users, items, jwtSecret>>

\* what findByIdAndUpdate(req.params.id, updateData) writes
mergedNote(r, doc) == IF r.note = None THEN doc.note ELSE r.note
mergedImage(r, doc) == IF r.file = None THEN doc.image ELSE r.file
applyUpdateStartOnly(r, doc) ==
    [doc EXCEPT !.updatedBy = r.user, !.note = mergedNote(r, doc),
                !.image = mergedImage(r, doc),
                !.start = IF r.start = NoDate THEN doc.start ELSE r.start]
applyUpdate(r, doc) ==
    IF r.start = NoDate
    THEN [doc EXCEPT !.updatedBy = r.user, !.note = mergedNote(r, doc),
                     !.image = mergedImage(r, doc)]
    ELSE [doc EXCEPT !.updatedBy = r.user, !.note = mergedNote(r, doc),
                     !.image = mergedImage(r, doc),
                     !.start = r.start, !.end = r.end]

\* { runValidators: true }: the validator of dateRange.end computes
\* value > this.dateRange.start, and in an update `this` is not the
\* document: this.dateRange is undefined, the validator throws on every
\* update whose updateData holds dateRange and the update is rejected.  The
\* validators of note and updatedBy read the value alone.
runValidatorsOnDocument(r) == TRUE
runValidators(r) == r.start = NoDate

\* await Item.findByIdAndUpdate(..., { new: true, runValidators: true });
\* the catch block deletes the upload and answers 500 when the store or a
\* validator throws
UpdateItem_Save ==
    \E r \in InFlight, ok \in BOOLEAN :
        /\ r.op = "updateItem" /\ r.pc = "save"
        /\ IF ok /\ runValidators(r)
           THEN /\ items' = [items EXCEPT ![r.item] = applyUpdate(r, items[r.item])]
                /\ FinishUpload(r, 200)
                /\ UNCHANGED files
           ELSE /\ FinishUpload(r, 500)
                /\ files' = dropUpload(files, r)
                /\ UNCHANGED items
        /\ UNCHANGED <<users, jwtSecret>>

\* DELETE /:id: protect, canDelete
DeleteItemReceive(q) ==
    /\ LET st == authorizeItem("deleteItem", q.tok, q.item)
           a == [Authenticated(Request("deleteItem", q.tok)) EXCEPT
                    !.item = q.item, !.origin = q.origin]
       IN  IF st # 0
           THEN Reject(q.origin, "deleteItem", q.tok, st)
           ELSE Room /\ Suspend(a, "find")
    /\ UNCHANGED <<users, items, files, jwtSecret>>

DeleteItem_Receive ==
    /\ received < MaxRequests
    /\ \E tok \in PresentableTokens :
       \E i \in ParamsIf("deleteItem", tok, Items) :
          DeleteItemReceive([NoParams EXCEPT !.tok = tok, !.item = i])

DeleteItem_Find ==
    \E r \in InFlight :
        /\ r.op = "deleteItem" /\ r.pc = "find"
        /\ IF ~findActiveItem(r.item)
           THEN Finish(r, 404)
           ELSE Resume(r, r, "save")
        /\ UNCHANGED <<users, items, files, jwtSecret>>

\* what findByIdAndUpdate(id, { isActive: false, updatedBy }) writes
softDeleteDropsImage(r, doc) ==
    [doc EXCEPT !.isActive = FALSE, !.updatedBy = r.user, !.image = None]
softDelete(r, doc) == [doc EXCEPT !.isActive = FALSE, !.updatedBy = r.user]

\* await Item.findByIdAndUpdate(id, { isActive: false, updatedBy }); the
\* catch block answers 500 when the store throws
DeleteItem_Save ==
    \E r \in InFlight, ok \in BOOLEAN :
        /\ r.op = "deleteItem" /\ r.pc = "save"
        /\ IF ok
           THEN items' = [items EXCEPT ![r.item] = softDelete(r, items[r.item])]
                /\ Finish(r, 200)
           ELSE Finish(r, 500) /\ UNCHANGED items
        /\ UNCHANGED <<users, files, jwtSecret>>

\* the steps of POST /
NextCreate ==
    \/ CreateItem_Receive
    \/ CreateItem_Upload
    \/ CreateItem_Validate
    \/ CreateItem_Save
    \/ CreateItem_Populate

NextItems ==
    \/ ListItems_Receive
    \/ ListItems_Find
    \/ ListItems_Count
    \/ GetItem_Receive
    \/ GetItem_Find
    \/ MyItems_Receive
    \/ MyItems_Find
    \/ MyItems_Count
    \/ NextCreate
    \/ UpdateItem_Receive
    \/ UpdateItem_Find
    \/ UpdateItem_Save
    \/ DeleteItem_Receive
    \/ DeleteItem_Find
    \/ DeleteItem_Save

SpecItems == Init /\ [][NextItems]_vars

\* the routes that write the date range: create and update
NextRange ==
    \/ NextCreate
    \/ UpdateItem_Receive
    \/ UpdateItem_Find
    \/ UpdateItem_Save

SpecRange == Init /\ [][NextRange]_vars

\* create and delete
NextDelete ==
    \/ NextCreate
    \/ DeleteItem_Receive
    \/ DeleteItem_Find
    \/ DeleteItem_Save

SpecDelete == Init /\ [][NextDelete]_vars

\* item creation and deletion while a super_admin changes roles
NextRole ==
    \/ NextDelete
    \/ UpdateUserRole_Receive
    \/ UpdateUserRole_Find
    \/ Admin_Save
SpecRole == Init /\ [][NextRole]_vars

----------------------------------------------------------------------------
(* routes/auth.js *)

FreeUsers == {u \in Users : ~users[u].exists}
UserOrder == <<"u1", "u2", "u3">>
newUserId ==
    UserOrder[CHOOSE k \in 1..Len(UserOrder) :
                /\ UserOrder[k] \in FreeUsers
                /\ \A j \in 1..(k - 1) : UserOrder[j] \notin FreeUsers]

\* User.findOne({ email })
emailTaken(email) == \E u \in Users : users[u].exists /\ users[u].email = email
\* User.findOne({ email, _id: { $ne: req.user._id } })
emailTakenByOther(email, user) ==
    \E u \in Users \ {user} : users[u].exists /\ users[u].email = email

\* generateToken(id)
generateToken(id) == IF jwtSecret THEN ValidToken(id) ELSE NoToken

\* POST /register: the validators, then User.findOne({ email }); the body
\* may carry any further field, a role among them
RegisterReceive(q) ==
    /\ LET a == [Request("register", NoToken) EXCEPT
                    !.email = q.email, !.password = q.password,
                    !.newRole = q.role, !.origin = q.origin]
       IN  IF emailTaken(q.email)
           THEN Reject(q.origin, "register", NoToken, 400)
           ELSE /\ Room
                /\ Pending("register", {"save"}) < Cardinality(FreeUsers)
                /\ Suspend(a, "save")
    /\ UNCHANGED <<users, items, files, jwtSecret>>

Register_Receive ==
    /\ received < MaxRequests
    /\ \E email \in Emails, password \in Passwords, bodyRole \in Roles \cup {None} :
          RegisterReceive([NoParams EXCEPT !.email = email, !.password = password,
                                           !.role = bodyRole])

\* await User.create({ name, email, password }); then generateToken.  The
\* unique index on email makes the store throw on a duplicate, generateToken
\* throws without a secret; asyncHandler answers 400 and 500.
Register_Save ==
    \E r \in InFlight :
        /\ r.op = "register" /\ r.pc = "save"
        /\ IF emailTaken(r.email)
           THEN Finish(r, 400) /\ UNCHANGED users
           ELSE /\ users' = [users EXCEPT ![newUserId] =
                                NewUserDoc(r.email, r.password, r.newRole)]
                /\ IF generateToken(newUserId) = NoToken
                   THEN Finish(r, 500)
                   ELSE FinishToken(r, 201, generateToken(newUserId),
                                    newUserId, users'[newUserId].role)
        /\ UNCHANGED <<items, files, jwtSecret>>

\* POST /login: User.findOne({ email }).select('+password')
loginUser(email) == CHOOSE v \in Users : users[v].exists /\ users[v].email = email

\* the handler up to its second wait: 401 without a document or for a
\* deactivated account, 0 when it goes on to await user.correctPassword
loginFindStatus(email) ==
    IF ~emailTaken(email) THEN 401
    ELSE IF ~users[loginUser(email)].isActive THEN 401
    ELSE 0

\* the handler after bcrypt.compare, on the document it loaded
loginCompareStatus(password, digest, u) ==
    IF ~correctPassword(password, digest) THEN 401
    ELSE IF generateToken(u) = NoToken THEN 500
    ELSE 200

\* the answer to a login while no write lands between its two waits
loginStatus(email, password) ==
    IF loginFindStatus(email) # 0 THEN loginFindStatus(email)
    ELSE loginCompareStatus(password, users[loginUser(email)].password,
                            loginUser(email))

\* the message of the response
loginMessage(email, password) ==
    IF ~emailTaken(email) THEN "Invalid email or password"
    ELSE LET u == loginUser(email)
         IN  IF ~users[u].isActive
             THEN "Your account has been deactivated. Please contact administrator."
             ELSE IF ~correctPassword(password, users[u].password)
             THEN "Invalid email or password"
             ELSE IF generateToken(u) = NoToken THEN "Server Error"
             ELSE "Login successful"

\* data.token of the response
loginToken(email, password) ==
    IF loginStatus(email, password) = 200
    THEN generateToken(loginUser(email))
    ELSE NoToken

\* POST /login: the validators, const user = await
\* User.findOne({ email }).select('+password'), the tests of user and
\* user.isActive
LoginReceive(q) ==
    /\ LET a == [Request("login", NoToken) EXCEPT
                    !.email = q.email, !.password = q.password,
                    !.origin = q.origin,
                    !.loaded = loginUser(q.email),
                    !.role = users[loginUser(q.email)].role,
                    !.digest = users[loginUser(q.email)].password]
       IN  IF loginFindStatus(q.email) # 0
           THEN Reject(q.origin, "login", NoToken, loginFindStatus(q.email))
           ELSE Room /\ Suspend(a, "compare")
    /\ UNCHANGED <<users, items, files, jwtSecret>>

Login_Receive ==
    /\ received < MaxRequests
    /\ \E email \in Emails, password \in Passwords :
          LoginReceive([NoParams EXCEPT !.email = email, !.password = password])

\* await user.correctPassword(password) on the loaded document, then
\* generateToken and the response with the loaded user
Login_Compare ==
    \E r \in InFlight :
        /\ r.op = "login" /\ r.pc = "compare"
        /\ LET st == loginCompareStatus(r.password, r.digest, r.loaded)
           IN  IF st = 200
               THEN FinishToken(r, 200, generateToken(r.loaded), r.loaded, r.role)
               ELSE Finish(r, st)
        /\ UNCHANGED <<users, items, files, jwtSecret>>

\* PUT /profile: protect, the validators
UpdateProfileReceive(q) ==
    /\ LET st == protect(q.tok, users)
           a == [Authenticated(Request("updateProfile", q.tok)) EXCEPT
                    !.email = q.email, !.origin = q.origin]
       IN  IF st # 0
           THEN Reject(q.origin, "updateProfile", q.tok, st)
           ELSE Room /\ Suspend(a, IF q.email = None THEN "save" ELSE "find")
    /\ UNCHANGED <<users, items, files, jwtSecret>>

UpdateProfile_Receive ==
    /\ received < MaxRequests
    /\ \E tok \in PresentableTokens :
       \E email \in (IF protect(tok, users) = 0 THEN Emails \cup {None} ELSE {None}) :
          UpdateProfileReceive([NoParams EXCEPT !.tok = tok, !.email = email])

\* const existingUser = await User.findOne({ email, _id: { $ne: ... } })
UpdateProfile_Find ==
    \E r \in InFlight :
        /\ r.op = "updateProfile" /\ r.pc = "find"
        /\ IF emailTakenByOther(r.email, r.user)
           THEN Finish(r, 400)
           ELSE Resume(r, r, "save")
        /\ UNCHANGED <<users, items, files, jwtSecret>>

\* await User.findByIdAndUpdate(req.user._id, updateData, ...); the unique
\* index makes the store throw on a duplicate email; the response carries
\* the document as it is after the write
UpdateProfile_Save ==
    \E r \in InFlight :
        /\ r.op = "updateProfile" /\ r.pc = "save"
        /\ IF r.email # None /\ emailTakenByOther(r.email, r.user)
           THEN Finish(r, 400) /\ UNCHANGED users
           ELSE /\ users' = IF r.email = None THEN users
                            ELSE [users EXCEPT ![r.user].email = r.email]
                /\ FinishToken(r, 200, NoToken, r.user, users[r.user].role)
        /\ UNCHANGED <<items, files, jwtSecret>>

\* PUT /password: protect, the validators
ChangePasswordReceive(q) ==
    /\ LET st == protect(q.tok, users)
           a == [Authenticated(Request("changePassword", q.tok)) EXCEPT
                    !.password = q.password, !.email = q.newPassword,
                    !.origin = q.origin]
       IN  IF st # 0
           THEN Reject(q.origin, "changePassword", q.tok, st)
           ELSE Room /\ Suspend(a, "find")
    /\ UNCHANGED <<users, items, files, jwtSecret>>

ChangePassword_Receive ==
    /\ received < MaxRequests
    /\ \E tok \in PresentableTokens :
       \E current \in (IF protect(tok, users) = 0 THEN Passwords ELSE {None}) :
       \E new \in (IF protect(tok, users) = 0 THEN Passwords ELSE {None}) :
          ChangePasswordReceive([NoParams EXCEPT !.tok = tok, !.password = current,
                                                 !.newPassword = new])

\* const user = await User.findById(req.user._id).select('+password')
ChangePassword_Find ==
    \E r \in InFlight :
        /\ r.op = "changePassword" /\ r.pc = "find"
        /\ Resume(r, [r EXCEPT !.digest = users[r.user].password], "compare")
        /\ UNCHANGED <<users, items, files, jwtSecret>>

\* await user.correctPassword(currentPassword) on the loaded document
ChangePassword_Compare ==
    \E r \in InFlight :
        /\ r.op = "changePassword" /\ r.pc = "compare"
        /\ IF ~correctPassword(r.password, r.digest)
           THEN Finish(r, 400)
           ELSE Resume(r, r, "save")
        /\ UNCHANGED <<users, items, files, jwtSecret>>

\* user.password = newPassword; await user.save()
ChangePassword_Save ==
    \E r \in InFlight :
        /\ r.op = "changePassword" /\ r.pc = "save"
        /\ users' = saveUser(r.user, "password", hash(r.email))
        /\ Finish(r, 200)
        /\ UNCHANGED <<items, files, jwtSecret>>

NextAuth ==
    \/ Register_Receive
    \/ Register_Save
    \/ Login_Receive
    \/ Login_Compare
    \/ UpdateProfile_Receive
    \/ UpdateProfile_Find
    \/ UpdateProfile_Save
    \/ ChangePassword_Receive
    \/ ChangePassword_Find
    \/ ChangePassword_Compare
    \/ ChangePassword_Save

Next == NextItems \/ NextAdmin \/ NextAuth
Spec == Init /\ [][Next]_vars

\* the routes that write user documents
SpecUsers == Init /\ [][NextAdmin \/ NextAuth]_vars

\* the auth routes and the route that sets a user's active flag
NextLogin ==
    \/ NextAuth
    \/ UpdateUserStatus_Receive
    \/ UpdateUserStatus_Find
    \/ Admin_Save

SpecLogin == Init /\ [][NextLogin]_vars

\* the user soft-delete, the routes that write a user's active flag, and
\* the creation of items
NextCascade ==
    \/ NextCreate
    \/ DeleteUser_Receive
    \/ DeleteUser_Find
    \/ UpdateUserStatus_Receive
    \/ UpdateUserStatus_Find
    \/ ToggleActivation_Receive
    \/ ToggleActivation_Find
    \/ Admin_Save
    \/ DeleteUser_Cascade
SpecCascade == Init /\ [][NextCascade]_vars

----------------------------------------------------------------------------
(* part_002: optionalAuth.  No route of the repository mounts it; it is    *)
(* exported beside protect.  status 0 stands for next(), user for req.user *)

optionalAuthSkipsActive(tok, U) ==
    IF tok.kind = "none" THEN [status |-> 0, user |-> None]
    ELSE IF ~jwtSecret \/ tok.kind # "valid" THEN [status |-> 0, user |-> None]
    ELSE IF U[tok.sub].exists THEN [status |-> 0, user |-> tok.sub]
    ELSE [status |-> 0, user |-> None]
optionalAuth(tok, U) ==
    IF tok.kind = "none" THEN [status |-> 0, user |-> None]   \* no token: next()
    ELSE IF ~jwtSecret \/ tok.kind # "valid"
         THEN [status |-> 0, user |-> None]       \* jwt.verify threw, caught
    ELSE IF U[tok.sub].exists /\ U[tok.sub].isActive
         THEN [status |-> 0, user |-> tok.sub]
    ELSE [status |-> 0, user |-> None]

\* a request passes optionalAuth: one store access, then next()
OptionalAuth ==
    /\ received < MaxRequests
    /\ \E tok \in PresentableTokens :
          LET out == optionalAuth(tok, users)
          IN resp' = [NoResponse EXCEPT !.op = "optionalAuth", !.tok = tok,
                                        !.status = out.status, !.user = out.user]
    /\ received' = received + 1
    /\ UNCHANGED <<users, items, files, jwtSecret, browser, inflight>>

\* requests through optionalAuth beside the routes that make a user
\* inactive or remove one from the active set
NextOptional ==
    \/ OptionalAuth
    \/ UpdateUserStatus_Receive
    \/ UpdateUserStatus_Find
    \/ DeleteUser_Receive
    \/ DeleteUser_Find
    \/ Admin_Save
    \/ DeleteUser_Cascade
SpecOptional == Init /\ [][NextOptional]_vars

----------------------------------------------------------------------------
(* The client.  utils/permissions.js and the TypeScript utils hold copies   *)
(* of the role policy; the Item model holds a third one.  The auth context  *)
(* exists twice: context/AuthContext.js (initializeAuth, verifying with GET *)
(* /api/auth/verify) and the TypeScript context (checkAuth, verifying with  *)
(* POST /api/auth/verify-token).  Both keep the token in localStorage; the  *)
(* TypeScript one also keeps the user under the key 'user'.                 *)

\* permissions.js: PERMISSIONS[role][permission]; the key manageUsers is
\* the capability manage_users
PERMISSIONS(role, cap) ==
    CASE role = "user" -> cap \in {"read"}
      [] role = "admin" -> cap \in {"read", "create", "update"}
      [] role = "super_admin" ->
            cap \in {"read", "create", "update", "delete", "manage_users"}

\* permissions.js: hasPermissions(role, requiredPermissions)
hasPermissions(role, requiredPermissions) ==
    IF role \notin Roles THEN FALSE
    ELSE \A permission \in requiredPermissions : PERMISSIONS(role, permission)

\* permissions.js: canPerformCRUD(role)
clientCanPerformCRUD(role) ==
    hasPermissions(role, {"create", "update", "delete"})

\* permissions.js: canManageUsers(role)
clientCanManageUsers(role) == hasPermissions(role, {"manage_users"})

\* permissions.js: isReadOnly(role)
isReadOnly(role) == role = "user"

\* TypeScript utils: getRolePermissions(role)[permission]; canCreate,
\* canRead, canUpdate, canDelete, canManageUsers are the five capabilities
getRolePermissions(role, cap) ==
    CASE role = "super_admin" ->
            cap \in {"create", "read", "update", "delete", "manage_users"}
      [] role = "admin" -> cap \in {"create", "read", "update", "delete"}
      [] OTHER -> cap \in {"read"}

\* TypeScript utils: hasPermission(role, permission)
hasPermission(role, permission) == getRolePermissions(role, permission)

\* models/Item.js: itemSchema.methods.canEdit(user)
canEdit(role) == role \in {"super_admin", "admin"}

\* models/Item.js: itemSchema.methods.canDelete(user)
itemCanDelete(role) == role \in {"super_admin", "admin"}

\* authReducer, one operator per action type
AUTH_START(b) == [b EXCEPT !.loading = TRUE]
AUTH_SUCCESS(b, user, role, token) ==
    [b EXCEPT !.user = user, !.role = role, !.stateToken = token,
              !.loading = FALSE, !.isAuthenticated = TRUE]
AUTH_FAILURE(b) ==
    [b EXCEPT !.user = None, !.role = None, !.stateToken = NoToken,
              !.loading = FALSE, !.isAuthenticated = FALSE]
LOGOUT(b) ==
    [b EXCEPT !.user = None, !.role = None, !.stateToken = NoToken,
              !.loading = FALSE, !.isAuthenticated = FALSE]
UPDATE_USER(b, user, role) == [b EXCEPT !.user = user, !.role = role]

\* GET /api/auth/verify: protect
VerifyReceive(q) ==
    /\ LET st == protect(q.tok, users)
           a == [Authenticated(Request("verify", q.tok)) EXCEPT !.origin = q.origin]
       IN  IF st # 0
           THEN Reject(q.origin, "verify", q.tok, st)
           ELSE Room /\ Suspend(a, "find")
    /\ UNCHANGED <<users, items, files, jwtSecret>>

\* what GET /verify and POST /verify-token answer once User.findById
\* resolved: 401 when !user || !user.isActive
verifyStatus(u, U) ==
    IF ~U[u].exists \/ ~U[u].isActive THEN 401 ELSE 200

\* the answer the page receives: data.user of a 200
verifyAnswer(u, U) ==
    IF verifyStatus(u, U) = 200
    THEN [status |-> 200, user |-> u, role |-> U[u].role, issued |-> NoToken]
    ELSE [NoAnswer EXCEPT !.status = verifyStatus(u, U)]

\* GET /api/auth/verify: const user = await User.findById(req.user.id)
Verify_Find ==
    \E r \in InFlight :
        /\ r.op = "verify" /\ r.pc = "find"
        /\ LET x == verifyAnswer(r.user, users)
           IN  FinishToken(r, x.status, NoToken, x.user, x.role)
        /\ UNCHANGED <<users, items, files, jwtSecret>>

\* POST /api/auth/verify-token up to its wait: the token travels in the
\* body; 0 when the handler goes on to await User.findById(decoded.id)
verifyTokenStatus(tok) ==
    IF tok.kind = "none" THEN 400                 \* token is required
    ELSE IF ~jwtSecret THEN 500                   \* JWT secret not configured
    ELSE IF tok.kind # "valid" THEN 401           \* jwt.verify threw
    ELSE 0

VerifyTokenReceive(q) ==
    /\ LET st == verifyTokenStatus(q.token)
           a == [Request("verifyToken", q.token) EXCEPT
                    !.origin = q.origin, !.loaded = q.token.sub]
       IN  IF st # 0
           THEN Reject(q.origin, "verifyToken", q.token, st)
           ELSE Room /\ Suspend(a, "find")
    /\ UNCHANGED <<users, items, files, jwtSecret>>

\* POST /api/auth/verify-token: const user = await User.findById(decoded.id)
VerifyToken_Find ==
    \E r \in InFlight :
        /\ r.op = "verifyToken" /\ r.pc = "find"
        /\ LET x == verifyAnswer(r.loaded, users)
           IN  FinishToken(r, x.status, NoToken, x.user, x.role)
        /\ UNCHANGED <<users, items, files, jwtSecret>>

\* GET /api/auth/me: protect, then the handler answers with req.user
GetMeReceive(q) ==
    /\ LET st == protect(q.tok, users)
       IN  Reject(q.origin, "getMe", q.tok, IF st # 0 THEN st ELSE 200)
    /\ UNCHANGED <<users, items, files, jwtSecret>>

\* GET /api/users, GET /api/users/:id, GET /api/users/role/:role and
\* GET /api/users/stats/overview: protect, superAdminOnly, the validators
UserReadReceive(op, q) ==
    /\ LET st == Authorize(op, q.tok)
           a == [Authenticated(Request(op, q.tok)) EXCEPT
                    !.target = IF op = "getUser" THEN castObjectId(q.uid) ELSE None,
                    !.origin = q.origin]
       IN  IF st # 0
           THEN Reject(q.origin, op, q.tok, st)
           ELSE Room /\ Suspend(a, IF op = "getUserStats" THEN "aggregate" ELSE "find")
    /\ UNCHANGED <<users, items, files, jwtSecret>>

\* a path no router mounts: app.use('*') answers 404
NotFound(q) ==
    /\ Reject(q.origin, "notFound", q.tok, 404)
    /\ UNCHANGED <<users, items, files, jwtSecret>>

\* app.use('/api/auth', ...), app.use('/api/items', ...), app.use('/api/users',
\* ...) and the routers: the method and the path of a request select its
\* handler; op names the route, or the method and path where there is none
Route(q) ==
    CASE q.op = "verify" -> VerifyReceive(q)
      [] q.op = "verifyToken" -> VerifyTokenReceive(q)
      [] q.op = "login" -> LoginReceive(q)
      [] q.op = "register" -> RegisterReceive(q)
      [] q.op = "getMe" -> GetMeReceive(q)
      [] q.op = "updateProfile" -> UpdateProfileReceive(q)
      [] q.op = "changePassword" -> ChangePasswordReceive(q)
      [] q.op = "listItems" -> ListItemsReceive(q)
      [] q.op = "myItems" -> MyItemsReceive(q)
      [] q.op = "getItem" -> GetItemReceive(q)
      [] q.op = "createItem" -> CreateItemReceive(q)
      [] q.op = "updateItem" -> UpdateItemReceive(q)
      [] q.op = "deleteItem" -> DeleteItemReceive(q)
      [] q.op \in UserReadOps -> UserReadReceive(q.op, q)
      [] q.op \in AdminOps \ {"bulkUpdateRoles"} -> ReceiveAdmin(q.op, q)
      [] q.op = "bulkUpdateRoles" -> BulkUpdateRolesReceive(q)
      [] OTHER -> NotFound(q)

\* the server receives a request of the page
Page_Receive == \E q \in browser.wire : Route(q)

\* GET /api/users: const users = await User.find(filter)...; the catch
\* block answers 500 when the store throws
GetUsers_Find ==
    \E r \in InFlight, ok \in BOOLEAN :
        /\ r.op = "getUsers" /\ r.pc = "find"
        /\ IF ok THEN Resume(r, r, "count") ELSE Finish(r, 500)
        /\ UNCHANGED <<users, items, files, jwtSecret>>

\* const totalUsers = await User.countDocuments(filter)
GetUsers_Count ==
    \E r \in InFlight, ok \in BOOLEAN :
        /\ r.op = "getUsers" /\ r.pc = "count"
        /\ Finish(r, IF ok THEN 200 ELSE 500)
        /\ UNCHANGED <<users, items, files, jwtSecret>>

\* GET /api/users/:id: const user = await User.findById(req.params.id)
GetUser_Find ==
    \E r \in InFlight, ok \in BOOLEAN :
        /\ r.op = "getUser" /\ r.pc = "find"
        /\ IF ~ok THEN Finish(r, 500)
           ELSE IF ~users[r.target].exists THEN Finish(r, 404)
           ELSE Resume(r, r, "count")
        /\ UNCHANGED <<users, items, files, jwtSecret>>

\* const itemCount = await Item.countDocuments({ createdBy, isActive })
GetUser_Count ==
    \E r \in InFlight, ok \in BOOLEAN :
        /\ r.op = "getUser" /\ r.pc = "count"
        /\ Finish(r, IF ok THEN 200 ELSE 500)
        /\ UNCHANGED <<users, items, files, jwtSecret>>

\* GET /api/users/role/:role: const users = await User.getUsersByRole(role)
GetUsersByRole_Find ==
    \E r \in InFlight, ok \in BOOLEAN :
        /\ r.op = "getUsersByRole" /\ r.pc = "find"
        /\ Finish(r, IF ok THEN 200 ELSE 500)
        /\ UNCHANGED <<users, items, files, jwtSecret>>

\* GET /api/users/stats/overview waits five times: User.aggregate, then
\* User.countDocuments twice, Item.countDocuments and User.countDocuments.
\* One of the five reads resolves or throws.
GetUserStats_Await ==
    \E r \in InFlight, ok \in BOOLEAN :
        /\ r.op = "getUserStats"
        /\ LET next == CASE r.pc = "aggregate" -> "total"
                         [] r.pc = "total" -> "active"
                         [] r.pc = "active" -> "items"
                         [] r.pc = "items" -> "recent"
                         [] OTHER -> "done"
           IN  IF ~ok THEN Finish(r, 500)
               ELSE IF next = "done" THEN Finish(r, 200)
               ELSE Resume(r, r, next)
        /\ UNCHANGED <<users, items, files, jwtSecret>>

\* what localStorage can hold when a page loads: a token some login stored
\* (AuthContext.js stores 'token' only, the TypeScript context 'token' and
\* 'user'), or anything typed into it
StoredTokens ==
    {NoToken, MalformedToken}
        \cup {ValidToken(u) : u \in {v \in Users : jwtSecret /\ users[v].exists}}

Pages ==
    {[NoBrowser EXCEPT !.impl = "js", !.pc = "mount", !.token = tok] :
        tok \in StoredTokens}
    \cup {[NoBrowser EXCEPT !.impl = "ts", !.pc = "mount", !.token = tok,
                            !.userData = ud] :
            tok \in StoredTokens, ud \in BOOLEAN}

InitClient == InitServer /\ items["i1"].exists /\ browser \in Pages

serverVars == <<users, items, files, inflight, resp, jwtSecret, received>>

\* The Authorization header of a request of the page: the request
\* interceptor writes the 'token' of localStorage into it when there is
\* one; otherwise the request keeps the default header of the axios
\* instance, which setAuthToken set and no 401 clears.
authorization(b) == IF b.token # NoToken THEN b.token ELSE b.header

\* A request leaves the page with its Authorization header; tok is the
\* token POST /verify-token is sent in its body.  The call then waits for
\* the response.
Send(b, slot, op, tok, q) ==
    [b EXCEPT !.sent = @ + 1,
              !.wire = @ \cup {[q EXCEPT !.op = op, !.tok = authorization(b),
                                         !.token = tok,
                                         !.origin = [slot |-> slot, id |-> b.sent + 1]]},
              ![slot] = [NoExchange EXCEPT !.op = op, !.stage = "waiting",
                                           !.id = b.sent + 1, !.tok = tok]]

\* the response interceptors: on a 401 AuthContext.js's service removes
\* 'token', the TypeScript one 'token' and 'user'; both set
\* window.location.href = '/login'.  The default header stays.
interceptResponse(b, status) ==
    IF status # 401 THEN b
    ELSE [b EXCEPT !.token = NoToken,
                   !.userData = IF b.impl = "ts" THEN FALSE ELSE @,
                   !.redirect = TRUE]

\* a call ends without a response: the timeout of axios (10 s) or a network
\* error rejects the promise
axiosTimeout ==
    /\ \E slot \in {"init", "call"} :
          /\ browser[slot].stage = "waiting"
          /\ browser' = [browser EXCEPT ![slot] = [@ EXCEPT !.stage = "answered",
                                                            !.answer = NoAnswer]]
    /\ UNCHANGED serverVars

\* the browser follows window.location.href = '/login': a new document, the
\* auth context starts from initialState and its effect runs again;
\* localStorage stays
pageLoad ==
    /\ browser.redirect
    /\ browser' = [NoBrowser EXCEPT !.impl = browser.impl, !.pc = "mount",
                                    !.token = browser.token,
                                    !.userData = browser.userData,
                                    !.sent = browser.sent, !.wire = browser.wire]
    /\ UNCHANGED serverVars

\* AuthContext.js initializeAuth, up to the await of verifyToken():
\* apiService.setAuthToken(token) makes the token the default header
initializeAuth_Start ==
    /\ browser.impl = "js" /\ browser.pc = "mount"
    /\ IF browser.token = NoToken
       THEN browser' = [AUTH_FAILURE(AUTH_START(browser)) EXCEPT !.pc = "done"]
       ELSE /\ browser.sent < MaxPageRequests
            /\ browser' = [Send([AUTH_START(browser) EXCEPT !.header = browser.token],
                                "init", "verify", browser.token, NoParams)
                              EXCEPT !.pc = "verifying"]
    /\ UNCHANGED serverVars

\* AuthContext.js initializeAuth, from the end of GET /api/auth/verify on:
\* on a 200 with data.user AUTH_SUCCESS with the token read at the start;
\* on every other answer, and when no answer came, the call throws and the
\* catch block removes 'token' and clears the default header
initializeAuth_Verify ==
    /\ browser.impl = "js" /\ browser.pc = "verifying"
    /\ browser.init.stage = "answered"
    /\ LET x == browser.init
           b == [interceptResponse(browser, x.answer.status) EXCEPT
                    !.init = NoExchange, !.pc = "done"]
       IN  browser' =
              IF x.answer.status = 200
              THEN AUTH_SUCCESS(b, x.answer.user, x.answer.role, x.tok)
              ELSE [AUTH_FAILURE(b) EXCEPT !.token = NoToken, !.header = NoToken]
    /\ UNCHANGED serverVars

\* TypeScript checkAuth, up to the await of verifyToken(token)
checkAuth_Start ==
    /\ browser.impl = "ts" /\ browser.pc = "mount"
    /\ IF browser.token # NoToken /\ browser.userData
       THEN /\ browser.sent < MaxPageRequests
            /\ browser' = [Send(AUTH_START(browser), "init", "verifyToken",
                                browser.token, NoParams)
                              EXCEPT !.pc = "verifying"]
       ELSE browser' = [AUTH_FAILURE(browser) EXCEPT !.pc = "done"]
    /\ UNCHANGED serverVars

\* TypeScript checkAuth, from the end of POST /api/auth/verify-token on
checkAuth_Verify ==
    /\ browser.impl = "ts" /\ browser.pc = "verifying"
    /\ browser.init.stage = "answered"
    /\ LET x == browser.init
           b == [interceptResponse(browser, x.answer.status) EXCEPT
                    !.init = NoExchange, !.pc = "done"]
       IN  browser' =
              IF x.answer.status = 200
              THEN AUTH_SUCCESS(b, x.answer.user, x.answer.role, x.tok)
              ELSE [AUTH_FAILURE(b) EXCEPT !.token = NoToken, !.userData = FALSE]
    /\ UNCHANGED serverVars

\* the page is up and no call of the context's functions or of the api
\* service is under way
Ready == browser.pc \in {"verifying", "done"} /\ browser.call.stage = "idle"

\* what is typed into the forms of the page: the admin's email with the
\* right and with a wrong password, and an email no account has
PageCredentials == {<<"e2", "p1">>, <<"e2", "long1">>, <<"e3", "p1">>}

\* login(email, password) of either context, up to the await of
\* apiService.login
login_Start ==
    /\ Ready /\ browser.sent < MaxPageRequests
    /\ \E c \in PageCredentials :
          browser' = Send(AUTH_START(browser), "call", "login", NoToken,
                           [NoParams EXCEPT !.email = c[1], !.password = c[2]])
    /\ UNCHANGED serverVars

\* register(name, email, password) of either context, up to the await
register_Start ==
    /\ Ready /\ browser.sent < MaxPageRequests
    /\ \E c \in PageCredentials :
          browser' = Send(AUTH_START(browser), "call", "register", NoToken,
                           [NoParams EXCEPT !.email = c[1], !.password = c[2]])
    /\ UNCHANGED serverVars

\* login and register from the response on: with a success both contexts
\* store 'token' (the TypeScript one 'user' as well, AuthContext.js sets
\* the default header) and dispatch AUTH_SUCCESS; otherwise the call throws
\* and they dispatch AUTH_FAILURE
login_Done ==
    /\ browser.call.op \in {"login", "register"}
    /\ browser.call.stage = "answered"
    /\ LET x == browser.call.answer
           b == [interceptResponse(browser, x.status) EXCEPT !.call = NoExchange]
       IN  browser' =
              IF x.status \in {200, 201}
              THEN [AUTH_SUCCESS(b, x.user, x.role, x.issued) EXCEPT
                       !.token = x.issued,
                       !.header = IF b.impl = "js" THEN x.issued ELSE @,
                       !.userData = IF b.impl = "ts" THEN TRUE ELSE @]
              ELSE AUTH_FAILURE(b)
    /\ UNCHANGED serverVars

\* logout() of either context: 'token' (and 'user') removed, the default
\* header of AuthContext.js's service cleared, LOGOUT
logout ==
    /\ browser.pc \in {"verifying", "done"}
    /\ browser.isAuthenticated
    /\ browser' = [LOGOUT(browser) EXCEPT
                      !.token = NoToken, !.header = NoToken,
                      !.userData = IF browser.impl = "ts" THEN FALSE ELSE @]
    /\ UNCHANGED serverVars

\* AuthContext.js updateUser(userData): the payload replaces state.user
updateUser ==
    /\ browser.impl = "js" /\ browser.pc \in {"verifying", "done"}
    /\ browser.isAuthenticated
    /\ \E role \in Roles :
          /\ role # browser.role
          /\ browser' = UPDATE_USER(browser, browser.user, role)
    /\ UNCHANGED serverVars

\* TypeScript updateProfile(name, email), up to the await
updateProfile_Start ==
    /\ browser.impl = "ts" /\ Ready /\ browser.sent < MaxPageRequests
    /\ browser.isAuthenticated
    /\ \E c \in PageCredentials :
          browser' = Send(browser, "call", "updateProfile", NoToken,
                           [NoParams EXCEPT !.email = c[1]])
    /\ UNCHANGED serverVars

\* TypeScript updateProfile from the response on: 'user' is stored and
\* UPDATE_USER dispatched, or the call throws
updateProfile_Done ==
    /\ browser.impl = "ts"
    /\ browser.call.op = "updateProfile" /\ browser.call.stage = "answered"
    /\ LET x == browser.call.answer
           b == [interceptResponse(browser, x.status) EXCEPT !.call = NoExchange]
       IN  browser' =
              IF x.status = 200
              THEN [UPDATE_USER(b, x.user, x.role) EXCEPT !.userData = TRUE]
              ELSE b
    /\ UNCHANGED serverVars

\* what the password form of the page is sent: the current password of
\* the admin's account with a new one, and a current password that is wrong
\* until the first change went through
PagePasswords == {<<"p1", "long1">>, <<"long1", "p1">>}

\* TypeScript changePassword(currentPassword, newPassword), up to the await
\* of apiService.changePassword: PUT /auth/password
changePassword_Start ==
    /\ browser.impl = "ts" /\ Ready /\ browser.sent < MaxPageRequests
    /\ browser.isAuthenticated
    /\ \E c \in PagePasswords :
          browser' = Send(browser, "call", "changePassword", NoToken,
                          [NoParams EXCEPT !.password = c[1], !.newPassword = c[2]])
    /\ UNCHANGED serverVars

\* TypeScript changePassword from the response on: nothing is stored and
\* nothing dispatched; a failure is thrown on to the caller
changePassword_Done ==
    /\ browser.impl = "ts"
    /\ browser.call.op = "changePassword" /\ browser.call.stage = "answered"
    /\ browser' = [interceptResponse(browser, browser.call.answer.status) EXCEPT
                      !.call = NoExchange]
    /\ UNCHANGED serverVars

\* The methods of the api service that the components call, or that no
\* function of the auth context wraps, with the route their request reaches
\* and what the page sends: the id of the first item, the id of the admin's
\* account as the store prints it, a filled form with an image.  The
\* service of AuthContext.js sends logout, getProfile, changePassword and
\* bulkUpdateUserRoles to paths no router mounts.
ServiceCall(method, op, q) == [method |-> method, op |-> op, q |-> q]
ServiceCalls(impl) ==
    LET item == [NoParams EXCEPT !.item = "i1"]
        admin == [NoParams EXCEPT !.uid = toString("u2")]
        both ==
            {ServiceCall("getItems", "listItems", NoParams),
             ServiceCall("getMyItems", "myItems", NoParams),
             ServiceCall("getItem", "getItem", item),
             ServiceCall("createItem", "createItem",
                         [NoParams EXCEPT !.start = 0, !.end = MaxDate, !.note = "n2",
                                          !.attached = TRUE]),
             ServiceCall("updateItem", "updateItem", [item EXCEPT !.attached = TRUE]),
             ServiceCall("updateItem", "updateItem", item),
             ServiceCall("deleteItem", "deleteItem", item),
             ServiceCall("getUsers", "getUsers", NoParams),
             ServiceCall("getUserStats", "getUserStats", NoParams),
             ServiceCall("updateUserRole", "updateUserRole", [admin EXCEPT !.role = "user"])}
    IN  IF impl = "js"
        THEN both \cup
             {ServiceCall("toggleUserActivation", "toggleActivation", admin),
              ServiceCall("updateProfile", "updateProfile", [NoParams EXCEPT !.email = "e3"]),
              ServiceCall("logout", "POST /auth/logout", NoParams),
              ServiceCall("getProfile", "GET /auth/profile", NoParams),
              ServiceCall("changePassword", "PUT /auth/change-password", NoParams),
              ServiceCall("bulkUpdateUserRoles", "PUT /users/bulk-role-update", NoParams)}
        ELSE both \cup
             {ServiceCall("getProfile", "getMe", NoParams),
              ServiceCall("getUser", "getUser", admin),
              ServiceCall("updateUserStatus", "updateUserStatus", admin),
              ServiceCall("getUsersByRole", "getUsersByRole", [NoParams EXCEPT !.role = "admin"]),
              ServiceCall("deleteUser", "deleteUser", admin),
              ServiceCall("bulkUpdateUserRoles", "bulkUpdateRoles",
                          [NoParams EXCEPT !.ids = {toString("u2")}, !.role = "user"]),
              ServiceCall("healthCheck", "GET /api/health", NoParams)}

\* a method of the api service is called: this.api.get / post / put /
\* delete, up to the await.  The components that call the service render
\* under ProtectedRoute, for an authenticated context.
apiService_Start ==
    /\ Ready /\ browser.sent < MaxPageRequests
    /\ browser.isAuthenticated
    /\ \E c \in ServiceCalls(browser.impl) :
          browser' = [Send(browser, "call", c.op, NoToken, c.q) EXCEPT
                         !.call.op = c.method]
    /\ UNCHANGED serverVars

\* the call of the api service from the response on: the response
\* interceptor, then handleResponse or handleError; the auth context learns
\* nothing of it
apiService_Done ==
    /\ browser.call.op \in {c.method : c \in ServiceCalls(browser.impl)}
    /\ browser.call.stage = "answered"
    /\ browser' = [interceptResponse(browser, browser.call.answer.status) EXCEPT
                      !.call = NoExchange]
    /\ UNCHANGED serverVars

\* the page
NextPage ==
    \/ initializeAuth_Start
    \/ initializeAuth_Verify
    \/ checkAuth_Start
    \/ checkAuth_Verify
    \/ login_Start
    \/ register_Start
    \/ login_Done
    \/ logout
    \/ updateUser
    \/ updateProfile_Start
    \/ updateProfile_Done
    \/ changePassword_Start
    \/ changePassword_Done
    \/ apiService_Start
    \/ apiService_Done
    \/ axiosTimeout
    \/ pageLoad

\* the routes the page calls
NextPageRoutes ==
    \/ Page_Receive
    \/ Verify_Find
    \/ VerifyToken_Find
    \/ Login_Compare
    \/ Register_Save
    \/ UpdateProfile_Find
    \/ UpdateProfile_Save
    \/ ChangePassword_Find
    \/ ChangePassword_Compare
    \/ ChangePassword_Save
    \/ ListItems_Find
    \/ ListItems_Count
    \/ MyItems_Find
    \/ MyItems_Count
    \/ GetItem_Find
    \/ CreateItem_Upload
    \/ CreateItem_Validate
    \/ CreateItem_Save
    \/ CreateItem_Populate
    \/ UpdateItem_Find
    \/ UpdateItem_Save
    \/ DeleteItem_Find
    \/ DeleteItem_Save
    \/ GetUsers_Find
    \/ GetUsers_Count
    \/ GetUser_Find
    \/ GetUser_Count
    \/ GetUsersByRole_Find
    \/ GetUserStats_Await
    \/ UpdateUserRole_Find
    \/ ToggleActivation_Find
    \/ UpdateUserStatus_Find
    \/ DeleteUser_Find
    \/ Admin_Save
    \/ DeleteUser_Cascade
    \/ BulkUpdateRoles_Update

\* a page of either client, while a super_admin sets active flags from
\* elsewhere
NextClient ==
    \/ NextPage
    \/ NextPageRoutes
    \/ UpdateUserStatus_Receive
SpecClient == InitClient /\ [][NextClient]_vars

----------------------------------------------------------------------------
(* Properties *)

\* C1: for every role and every capability, the guard a route mounts for
\* the capability lets the role pass exactly when the permission table
\* grants the capability to the role (user: read; admin: read, create,
\* update; super_admin: all five); a request that got past its guard was
\* made under a role the table grants the route's capability to.
GuardMatchesTable ==
    /\ \A cap \in Capabilities : \E op \in GuardedOps : RouteCapability(op) = cap
    /\ \A role \in Roles, op \in GuardedOps :
          (checkRole(RouteGuard(op), role) = 0)
              <=> PermissionTable(role, RouteCapability(op))
    /\ \A r \in InFlight :
          r.op \in GuardedOps => PermissionTable(r.role, RouteCapability(r.op))

\* an admin's create or update got past canPerformCRUD and the same
\* admin's delete was answered 403 by canDelete
GuardMatchesTableWitness ==
    /\ resp.op = "deleteItem" /\ resp.status = 403
    /\ users[resp.tok.sub].role = "admin"
    /\ \E r \in InFlight :
          r.op \in {"createItem", "updateItem"} /\ r.tok = resp.tok /\ r.role = "admin"

\* C3: while a user is deactivated, protect answers 401 to the user's
\* valid token on every route, and no request that presents the token is
\* let through to a handler.
DeactivatedTokenRejected ==
    [][\A u \in Users :
          (users[u].exists /\ ~users[u].isActive) =>
              /\ \A op \in GuardedOps : Authorize(op, ValidToken(u)) = 401
              /\ \A r \in BagToSet(inflight') :
                    (received' = received + 1 /\ r.tok = ValidToken(u))
                        => CopiesIn(r, inflight') = CopiesIn(r, inflight)]_vars

\* the admin was deactivated and the admin's valid token was then answered 401
DeactivatedTokenRejectedWitness ==
    /\ users["u2"].exists /\ ~users["u2"].isActive
    /\ resp.tok = ValidToken("u2") /\ resp.status = 401

\* C4: a super_admin that names its own id as the target of role-change,
\* toggle-activation, status-set or user delete, or inside a bulk batch, is
\* answered 403 whatever role or status it asks for, and no such request
\* goes on to write the actor's record.
SelfTargetForbidden ==
    /\ \A u \in Users :
          Authorize("updateUserRole", ValidToken(u)) = 0 =>
              /\ \A op \in AdminOps \ {"bulkUpdateRoles"}, s \in IdStrings :
                    castObjectId(s) = u => AdminStatus(op, ValidToken(u), s) = 403
              /\ \A ids \in Batches :
                    u \in {castObjectId(s) : s \in ids} => BulkStatus(ValidToken(u), ids) = 403
    /\ \A r \in InFlight :
          r.op \in AdminOps => (r.target # r.user /\ r.user \notin r.ids)

\* C5: a bulk role update whose batch holds the actor's own id is rejected
\* as a whole: it never reaches the store and no user's role changes.
BulkWithOwnIdRejected ==
    [][/\ \A r \in BagToSet(inflight') :
             r.op = "bulkUpdateRoles" => r.user \notin r.ids
       /\ \A r \in InFlight :
             (r.op = "bulkUpdateRoles" /\ r.user \in r.ids
                  /\ inflight' = inflight (-) SetToBag({r}))
                 => \A u \in Users : users'[u].role = users[u].role]_vars

\* C6: a successful bulk role update with batch ids and role r sets the
\* role to r for exactly the existing users named in ids, leaves the role of
\* every other user unchanged, and reports a modifiedCount of at most the
\* number of ids.
BulkUpdateExact ==
    [][\A r \in InFlight :
          (r.op = "bulkUpdateRoles" /\ inflight' = inflight (-) SetToBag({r})
               /\ resp'.status = 200)
              => /\ \A u \in r.ids : users[u].exists => users'[u].role = r.newRole
                 /\ \A u \in Users \ r.ids : users'[u].role = users[u].role
                 /\ resp'.count <= r.batch]_vars

\* C2: an item is created, updated or soft-deleted, and a user's role or
\* active flag is changed by an administration route, only by a request
\* whose token resolved, when the request was authenticated, to an existing
\* active user whose stored role held the route's capability; a request
\* that is turned away changes no item and no user record.
MutationsOnlyByAuthorized ==
    [][/\ (items' # items
              \/ \E u \in Users : /\ users[u].exists
                                  /\ \/ users'[u].role # users[u].role
                                     \/ users'[u].isActive # users[u].isActive)
          => \E r \in InFlight :
                /\ CopiesIn(r, inflight') < CopiesIn(r, inflight)
                /\ r.op \in GuardedOps
                /\ r.tok.kind = "valid" /\ r.user = r.tok.sub
                /\ PermissionTable(r.role, RouteCapability(r.op))
       /\ \A r \in BagToSet(inflight') :
             (received' = received + 1 /\ r.op \in GuardedOps
                  /\ CopiesIn(r, inflight') > CopiesIn(r, inflight))
             => /\ r.tok.kind = "valid" /\ r.user = r.tok.sub
                /\ users[r.user].exists /\ users[r.user].isActive
                /\ r.role = users[r.user].role
                /\ PermissionTable(r.role, RouteCapability(r.op))
       /\ (received' = received + 1 /\ inflight' = inflight)
             => (items' = items /\ users' = users)]_vars

\* an admin's create was authenticated, the admin was then deactivated, and
\* the create went on to store its item
MutationsOnlyByAuthorizedWitness ==
    /\ resp.op = "createItem" /\ resp.status = 201
    /\ ~users[resp.tok.sub].isActive
    /\ \E i \in Items : items[i].exists /\ items[i].createdBy = resp.tok.sub

\* C7 as stated: when a user soft-delete of U completes successfully, U is
\* inactive, every item created by U is inactive, and the items of other
\* users keep their active flag.
UserDeleteLeavesUserInactive ==
    [][\A r \in InFlight :
          (r.op = "deleteUser" /\ r.pc = "cascade"
               /\ inflight' = inflight (-) SetToBag({r}) /\ resp'.status = 200)
          => /\ ~users'[r.target].isActive
             /\ \A i \in Items :
                   IF items[i].exists /\ items[i].createdBy = r.target
                   THEN ~items'[i].isActive
                   ELSE items'[i] = items[i]]_vars

\* C7: a user soft-delete that found U active writes U inactive (one that
\* found U inactive already writes nothing to U), and when it completes
\* successfully every item created by U is inactive and the items of other
\* users keep their active flag (a concurrent administration request may
\* have written U's flag again by then).
UserDeleteCascades ==
    [][\A r \in InFlight :
          /\ (r.op = "deleteUser" /\ r.pc = "save"
                  /\ CopiesIn([r EXCEPT !.pc = "cascade"], inflight')
                         > CopiesIn([r EXCEPT !.pc = "cascade"], inflight))
             => /\ r.modified => ~users'[r.target].isActive
                /\ ~r.modified => users' = users
          /\ (r.op = "deleteUser" /\ r.pc = "find"
                  /\ CopiesIn(r, inflight') < CopiesIn(r, inflight)
                  /\ users[r.target].exists)
             => [r EXCEPT !.pc = "save", !.modified = users[r.target].isActive]
                    \in BagToSet(inflight')
          /\ (r.op = "deleteUser" /\ r.pc = "cascade"
                  /\ inflight' = inflight (-) SetToBag({r}) /\ resp'.status = 200)
             => \A i \in Items :
                   IF items[i].exists /\ items[i].createdBy = r.target
                   THEN ~items'[i].isActive
                   ELSE items'[i] = items[i]]_vars

\* the admin's soft-delete completed: the admin's item is inactive, the
\* super administrator's item still active
UserDeleteCascadesWitness ==
    /\ resp.op = "deleteUser" /\ resp.status = 200
    /\ ~users["u2"].isActive
    /\ \E i, j \in Items :
          /\ items[i].exists /\ items[i].createdBy = "u2" /\ ~items[i].isActive
          /\ items[j].exists /\ items[j].createdBy = "u1" /\ items[j].isActive

\* C8: a create or update whose effective date range (the supplied bounds
\* merged with the stored ones on update) has end <= start is answered 400,
\* creates or modifies no item, and leaves no file of the request stored:
\* the step that tests the dates answers 400, writes no item and leaves the
\* upload of the request deleted, and no request goes on to its write with
\* such a range.
BadRangeRejected ==
    [][/\ \A r \in BagToSet(inflight') :
             (\/ r.op = "createItem" /\ r.pc \in {"save", "populate"}
              \/ r.op = "updateItem" /\ r.pc = "save" /\ r.start # NoDate)
                 => r.end > r.start
       /\ \A r \in InFlight :
             (r.op = "createItem" /\ r.pc = "validate" /\ r.end <= r.start
                  /\ CopiesIn(r, inflight') < CopiesIn(r, inflight))
             => /\ resp'.op = "createItem" /\ resp'.status = 400
                /\ items' = items
                /\ r.file \notin files' /\ files' \subseteq files
       /\ \A r \in InFlight :
             (r.op = "updateItem" /\ r.pc = "find" /\ findActiveItem(r.item)
                  /\ (r.start # NoDate \/ r.end # NoDate)
                  /\ currentEnd(r) <= currentStart(r)
                  /\ CopiesIn(r, inflight') < CopiesIn(r, inflight))
             => /\ resp'.op = "updateItem" /\ resp'.status = 400
                /\ items' = items /\ files' = files]_vars

\* an update of a stored item that supplied one bound was answered 400
BadRangeRejectedWitness ==
    /\ resp.op = "updateItem" /\ resp.status = 400
    /\ \E i \in Items : items[i].exists /\ items[i].updatedBy = None

\* C9: every stored item has dateRange.end > dateRange.start, also after
\* concurrent updates of one item that each validated against the bounds
\* stored before the other's write.
StoredRangeOrdered ==
    \A i \in Items : items[i].exists => items[i].end > items[i].start

\* two updates of one item wait at their write, one sent startDate alone
\* and one endDate alone, each found in order against the stored range,
\* and the end of the one is not after the start of the other
StoredRangeOrderedWitness ==
    \E r1, r2 \in InFlight :
        /\ r1.op = "updateItem" /\ r1.pc = "save" /\ r1.given = {"startDate"}
        /\ r2.op = "updateItem" /\ r2.pc = "save" /\ r2.given = {"endDate"}
        /\ r1.item = r2.item /\ items[r1.item].exists
        /\ r2.end <= r1.start

\* C10: registration stores role 'user' whatever the body holds, and the
\* role of an existing user changes only in the write of a role-change or
\* bulk role update that a super_admin's valid token authenticated; no
\* other route changes a role.
RoleChangesOnlyByAdministration ==
    [][\A u \in Users :
          /\ (~users[u].exists /\ users'[u].exists) => users'[u].role = "user"
          /\ (users[u].exists /\ users'[u].role # users[u].role)
             => \E r \in InFlight :
                   /\ r.op \in {"updateUserRole", "bulkUpdateRoles"}
                   /\ CopiesIn(r, inflight') < CopiesIn(r, inflight)
                   /\ r.tok.kind = "valid" /\ r.role = "super_admin"
                   /\ users'[u].role = r.newRole]_vars

\* a registration was answered 201 and the account it created is a 'user'
RoleChangesOnlyByAdministrationWitness ==
    /\ resp.op = "register" /\ resp.status = 201
    /\ users["u3"].exists /\ users["u3"].role = "user"
    /\ users["u3"].password = hash("long1")

\* C11: protect answers an expired token with a response that differs
\* from the one it gives a tampered or malformed token.
ExpiredDistinguishable ==
    \A u \in Users, env \in NodeEnvs :
        (ExpiredToken(u) \in PresentableTokens) =>
            <<protect(ExpiredToken(u), users), protectBody(ExpiredToken(u), users, env)>>
                # <<protect(MalformedToken, users), protectBody(MalformedToken, users, env)>>

\* C12 as stated: on every guarded route a request with a missing, invalid
\* or expired token, or of a missing or deactivated user, is answered 401
\* and never 403; a request of an active user whose role lacks the
\* capability is answered 403 and never 401.
AuthBeforeRoleAlways ==
    \A op \in GuardedOps :
    \A tok \in {NoToken, MalformedToken} \cup UNION {TokensOf(u) : u \in Users} :
        IF tok.kind # "valid" \/ ~users[tok.sub].exists \/ ~users[tok.sub].isActive
        THEN Authorize(op, tok) = 401
        ELSE ~PermissionTable(users[tok.sub].role, RouteCapability(op))
                 => Authorize(op, tok) = 403

\* C12: with the signing secret set, on every guarded route a request with
\* a missing, invalid or expired token, or of a missing or deactivated user,
\* is answered 401 and an active user whose role lacks the capability is
\* answered 403; without the secret a request with no token is answered
\* 401 and every request that carries a token 500, never 403.  A request
\* turned away with 403 came from an active user whose role lacks the
\* capability, one turned away with 401 did not authenticate.
AuthBeforeRole ==
    [][LET decisions ==
              \A op \in GuardedOps :
              \A tok \in {NoToken, MalformedToken} \cup UNION {TokensOf(u) : u \in Users} :
                  IF tok.kind = "none" THEN Authorize(op, tok) = 401
                  ELSE IF ~jwtSecret THEN Authorize(op, tok) = 500
                  ELSE IF tok.kind # "valid" \/ ~users[tok.sub].exists
                             \/ ~users[tok.sub].isActive
                  THEN Authorize(op, tok) = 401
                  ELSE Authorize(op, tok) =
                          IF PermissionTable(users[tok.sub].role, RouteCapability(op))
                          THEN 0 ELSE 403
       IN
       \* the decisions depend on the user store alone: they are checked
       \* before the first request and after every write to the store
       /\ (received = 0) => decisions
       /\ (users' # users) => decisions'
       /\ (received' = received + 1 /\ inflight' = inflight /\ resp'.op \in GuardedOps)
          => /\ resp'.status = 403
                => /\ resp'.tok.kind = "valid"
                   /\ users[resp'.tok.sub].exists /\ users[resp'.tok.sub].isActive
                   /\ ~PermissionTable(users[resp'.tok.sub].role,
                                       RouteCapability(resp'.op))
             /\ resp'.status = 401
                => \/ resp'.tok.kind # "valid"
                   \/ ~users[resp'.tok.sub].exists
                   \/ ~users[resp'.tok.sub].isActive]_vars

\* the admin, active, was answered 403 by a users route while a super
\* administrator's request was in progress
AuthBeforeRoleWitness ==
    /\ resp.op \in AdminOps /\ resp.status = 403
    /\ resp.tok = ValidToken("u2")
    /\ users["u2"].isActive /\ users["u2"].role = "admin"
    /\ \E r \in InFlight : r.tok = ValidToken("u1")

\* C13: login is answered 401 and issues no token when the email is
\* unknown, the password is wrong or the account is deactivated, and the
\* response to an unknown email equals the response to a wrong password on
\* an active account.  In every state, for the handler as a function of
\* the stored documents; and by step: a login goes on to the password check
\* only for an account its lookup found active, every other one is
\* answered 401; the check answers 401 when the password does not match the
\* digest the lookup loaded; no response but a 200 carries a token.
LoginFailures ==
    /\ [](/\ \A email \in Emails, password \in Passwords :
               (\/ ~emailTaken(email)
                \/ ~users[loginUser(email)].isActive
                \/ users[loginUser(email)].password # hash(password))
               => /\ loginStatus(email, password) = 401
                  /\ loginToken(email, password) = NoToken
          /\ \A e1 \in Emails : ~emailTaken(e1) =>
             \A e2 \in Emails : (emailTaken(e2) /\ users[loginUser(e2)].isActive) =>
             \A p2 \in Passwords : (users[loginUser(e2)].password # hash(p2)) =>
             \A p1 \in Passwords :
                   /\ loginStatus(e1, p1) = loginStatus(e2, p2)
                   /\ loginMessage(e1, p1) = loginMessage(e2, p2))
    /\ [][/\ (received' = received + 1 /\ inflight' = inflight /\ resp'.op = "login")
                => resp'.status = 401 /\ resp'.issued = NoToken
          /\ \A r \in BagToSet(inflight') :
                (r.op = "login" /\ CopiesIn(r, inflight') > CopiesIn(r, inflight))
                => /\ emailTaken(r.email) /\ r.loaded = loginUser(r.email)
                   /\ users[r.loaded].isActive
                   /\ r.digest = users[r.loaded].password
          /\ \A r \in InFlight :
                (r.op = "login" /\ CopiesIn(r, inflight') < CopiesIn(r, inflight))
                => /\ r.digest # hash(r.password)
                      => resp'.status = 401 /\ resp'.issued = NoToken
                   /\ resp'.status # 200 => resp'.issued = NoToken
                   /\ resp'.status = 200 => resp'.issued = ValidToken(r.loaded)]_vars

\* a login was answered 401 without a token after the admin was deactivated
LoginFailuresWitness ==
    /\ resp.op = "login" /\ resp.status = 401 /\ resp.issued = NoToken
    /\ jwtSecret
    /\ ~users["u2"].isActive
    /\ \E email \in Emails : ~emailTaken(email)

\* C14: after a registration with email and pw is answered 201, login
\* with email and pw is answered 200 with a token whose subject is the id of
\* the registered user; after that user changed the password from pw to a
\* different pw2, login with pw is answered 401 and login with pw2 200.
RegisterLoginRoundTrip ==
    [][\A r \in InFlight :
          /\ (r.op = "register" /\ inflight' = inflight (-) SetToBag({r})
                  /\ resp'.status = 201)
             => /\ resp'.issued = ValidToken(newUserId)
                /\ loginStatus(r.email, r.password)' = 200
                /\ loginToken(r.email, r.password)' = ValidToken(newUserId)
                /\ protect(ValidToken(newUserId), users') = 0
          /\ (r.op = "changePassword" /\ r.pc = "save"
                  /\ inflight' = inflight (-) SetToBag({r}) /\ resp'.status = 200
                  /\ r.email # r.password /\ users'[r.user].isActive)
             => /\ loginStatus(users[r.user].email, r.password)' = 401
                /\ loginStatus(users[r.user].email, r.email)' = 200]_vars

\* C15: an item delete is answered 200 only for an actor whose role holds
\* the delete capability; the step that answers it sets the item's active
\* flag to false and records the actor as updatedBy, the record still exists
\* with the same dates, note, image reference and createdBy, every other
\* item, every user and every stored file is left as it was; a delete
\* request that is answered otherwise changes no item.
ItemDeleteOnlyDeactivates ==
    [][\A r \in InFlight :
          (r.op = "deleteItem" /\ inflight' = inflight (-) SetToBag({r}))
          => IF resp'.status = 200
             THEN /\ PermissionTable(r.role, "delete")
                  /\ items'[r.item].exists = items[r.item].exists
                  /\ ~items'[r.item].isActive
                  /\ items'[r.item].updatedBy = r.user
                  /\ items'[r.item].start = items[r.item].start
                  /\ items'[r.item].end = items[r.item].end
                  /\ items'[r.item].note = items[r.item].note
                  /\ items'[r.item].image = items[r.item].image
                  /\ items'[r.item].createdBy = items[r.item].createdBy
                  /\ \A i \in Items \ {r.item} : items'[i] = items[i]
                  /\ files' = files /\ users' = users
             ELSE items' = items /\ files' = files /\ users' = users]_vars

\* the first item was deleted by the super administrator: its record, its
\* image reference and the stored file are still there
ItemDeleteOnlyDeactivatesWitness ==
    /\ resp.op = "deleteItem" /\ resp.status = 200
    /\ items["i1"].exists /\ ~items["i1"].isActive
    /\ items["i1"].updatedBy = "u1" /\ items["i1"].createdBy = "u2"
    /\ items["i1"].image = "f1" /\ "f1" \in files
    /\ items["i1"].note = "n1"

\* C16: an item that is inactive is inactive after every step; while it is
\* inactive, get-by-id on it answers 404, neither listItems nor any user's
\* myItems holds it, and an update or a delete on it is answered 404 (500
\* when the store fails) and leaves its record as it was.
InactiveItemStaysGone ==
    [][\A i \in Items :
          (items[i].exists /\ ~items[i].isActive)
          => /\ ~items'[i].isActive
             /\ getItemStatus(i) = 404
             /\ \A search \in Searches : i \notin listItems(search)
             /\ \A u \in Users : i \notin myItems(u)
             /\ \A r \in InFlight :
                   (/\ r.op \in {"updateItem", "deleteItem"} /\ r.item = i
                    /\ inflight' = inflight (-) SetToBag({r}))
                   => resp'.status \in {404, 500} /\ items'[i] = items[i]]_vars

\* C17: for any two active items with different creators, every token gets
\* the same decision for an update and for a delete on both; an update or a
\* delete is answered 403 only when the actor's role lacks the capability of
\* the route, and is let through to the handler only under a role that
\* holds it, whoever created the item.
ItemAuthorizationIgnoresCreator ==
    /\ \A i1, i2 \in Items :
          (/\ findActiveItem(i1) /\ findActiveItem(i2)
           /\ items[i1].createdBy # items[i2].createdBy)
          => \A tok \in PresentableTokens, op \in {"updateItem", "deleteItem"} :
                authorizeItem(op, tok, i1) = authorizeItem(op, tok, i2)
    /\ (resp.op \in {"updateItem", "deleteItem"} /\ resp.status = 403)
       => ~PermissionTable(users[resp.tok.sub].role, RouteCapability(resp.op))
    /\ \A r \in InFlight :
          r.op \in {"updateItem", "deleteItem"}
          => PermissionTable(r.role, RouteCapability(r.op))

\* the admin's update of an item the super administrator created was
\* answered 200 while an item of the admin's own is active too
ItemAuthorizationIgnoresCreatorWitness ==
    /\ resp.op = "updateItem" /\ resp.status = 200 /\ resp.tok = ValidToken("u2")
    /\ \E i1, i2 \in Items :
          /\ findActiveItem(i1) /\ findActiveItem(i2)
          /\ items[i1].createdBy = "u2"
          /\ items[i2].createdBy = "u1" /\ items[i2].updatedBy = "u2"

\* C19: after every step no two user records have the same email; a
\* register or updateProfile request whose email another record holds, at
\* its existence check or at its write, is answered 409 and no user record
\* changes.
UniqueEmailsAndConflict ==
    [][/\ \A u1, u2 \in Users :
             (u1 # u2 /\ users'[u1].exists /\ users'[u2].exists)
             => users'[u1].email # users'[u2].email
       /\ (/\ resp'.op = "register" /\ received' = received + 1
           /\ inflight' = inflight)
          => resp'.status = 409 /\ users' = users
       /\ \A r \in InFlight :
             (/\ inflight' = inflight (-) SetToBag({r})
              /\ \/ r.op = "register" /\ emailTaken(r.email)
                 \/ /\ r.op = "updateProfile" /\ r.email # None
                    /\ emailTakenByOther(r.email, r.user))
             => resp'.status = 409 /\ users' = users]_vars

\* C20: while the signing secret is absent no response carries a token, a
\* registration that reaches its write and a login with the right
\* credentials of an active account are answered 500; whenever a
\* registration is answered with an error, no user record has changed.
NoSecretNoTokenNoUser ==
    [][/\ ~jwtSecret
          => /\ resp'.issued = NoToken
             /\ \A email \in Emails, password \in Passwords :
                   (/\ emailTaken(email) /\ users[loginUser(email)].isActive
                    /\ correctPassword(password, users[loginUser(email)].password))
                   => loginStatus(email, password) = 500
             /\ \A r \in InFlight :
                   (/\ r.op = "register" /\ ~emailTaken(r.email)
                    /\ inflight' = inflight (-) SetToBag({r}))
                   => resp'.status = 500
       /\ \A r \in InFlight :
             (/\ r.op = "register" /\ inflight' = inflight (-) SetToBag({r})
              /\ resp'.status >= 400)
             => users' = users]_vars

\* C21: for the role of the user the client has signed in, the client's
\* canPerformCRUD(role) decides as the backend canPerformCRUD guard does:
\* true for admin and super_admin, false for user.
ClientCRUDMatchesGuard ==
    browser.isAuthenticated =>
        (clientCanPerformCRUD(browser.role)
            <=> checkRole(canPerformCRUD, browser.role) = 0)

\* C22: whatever role-change, toggle-activation, status-set, user-delete
\* and bulk-role-update requests interleave, an active user with the role
\* super_admin exists.
ActiveSuperAdminRemains ==
    \E u \in Users :
        users[u].exists /\ users[u].isActive /\ users[u].role = "super_admin"

\* C23: a step that writes an item or a user record for a request taken
\* from the in-flight requests is never taken for an authenticated caller
\* whose record is inactive at that moment, whenever the caller passed
\* protect.
NoWriteForDeactivated ==
    [][\A r \in InFlight :
          (/\ CopiesIn(r, inflight') < CopiesIn(r, inflight)
           /\ r.user # None
           /\ (items' # items \/ users' # users))
          => users[r.user].isActive]_vars

\* C24: optionalAuth always passes control on, and the identity it attaches
\* is the caller's exactly when protect accepts the same token against the
\* same store; otherwise it attaches none.
OptionalAuthAsProtect ==
    [][(/\ received' = received + 1
        /\ inflight' = inflight
        /\ resp'.op = "optionalAuth")
       => /\ resp'.status = 0
          /\ (protect(resp'.tok, users) = 0) => resp'.user = resp'.tok.sub
          /\ (protect(resp'.tok, users) # 0) => resp'.user = None]_vars

OptionalAuthAsProtectWitness ==
    /\ resp.op = "optionalAuth"
    /\ resp.tok.kind = "valid"
    /\ users[resp.tok.sub].exists /\ ~users[resp.tok.sub].isActive
    /\ resp.user = None

\* C25: a successful item update sets updatedBy to the caller and changes
\* only the fields its request supplied: a bound of the date range, the
\* note or the image that was not supplied keeps the value stored when the
\* write is applied, createdBy and isActive never change, and no other item
\* changes.  An item just created has its creator in createdBy and no
\* updatedBy.
UpdateChangesOnlySupplied ==
    [][\A r \in InFlight :
          /\ (/\ r.op = "updateItem" /\ r.pc = "save"
              /\ CopiesIn(r, inflight') < CopiesIn(r, inflight)
              /\ resp'.status = 200)
             => /\ items'[r.item].updatedBy = r.user
                /\ items'[r.item].createdBy = items[r.item].createdBy
                /\ items'[r.item].isActive = items[r.item].isActive
                /\ "startDate" \notin r.given
                      => items'[r.item].start = items[r.item].start
                /\ "endDate" \notin r.given
                      => items'[r.item].end = items[r.item].end
                /\ r.note = None => items'[r.item].note = items[r.item].note
                /\ r.file = None => items'[r.item].image = items[r.item].image
                /\ \A j \in Items \ {r.item} : items'[j] = items[j]
          /\ (/\ r.op = "createItem" /\ r.pc = "save"
              /\ CopiesIn([r EXCEPT !.pc = "populate"], inflight')
                     > CopiesIn([r EXCEPT !.pc = "populate"], inflight))
             => \E j \in Items :
                   /\ ~items[j].exists /\ items'[j].exists
                   /\ items'[j].createdBy = r.user
                   /\ items'[j].updatedBy = None]_vars

\* an update with a note by another user than the creator was answered
\* 200: the item has the note and the caller in updatedBy, and the range,
\* the image, the creator and the active flag it was created with
UpdateChangesOnlySuppliedWitness ==
    /\ resp.op = "updateItem" /\ resp.status = 200
    /\ resp.tok = ValidToken("u1")
    /\ items["i1"] = [StoredItem("f1", 0, MaxDate, "n2", "u2") EXCEPT
                         !.updatedBy = "u1"]

\* C26: two logins that both carry a wrong password (for an unregistered
\* email every password is wrong) get the same status and the same
\* message, whether the email is unregistered, of an active account or of
\* a deactivated account.
WrongPasswordLoginsAlike ==
    \A e1 \in Emails, p1 \in Passwords :
        (~emailTaken(e1) \/ users[loginUser(e1)].password # hash(p1)) =>
    \A e2 \in Emails, p2 \in Passwords :
        (~emailTaken(e2) \/ users[loginUser(e2)].password # hash(p2)) =>
            /\ loginStatus(e1, p1) = loginStatus(e2, p2)
            /\ loginMessage(e1, p1) = loginMessage(e2, p2)

\* C27: a request with a token protect accepts is decided by the role the
\* store holds for the caller when the request arrives: it is answered 403
\* exactly when that role is not among the roles of the route's guard, and
\* it reaches the handler only with a role that is, whatever role the
\* caller had when the token was issued.
StoredRoleDecides ==
    [][(received' = received + 1) =>
          /\ (/\ inflight' = inflight
              /\ resp'.op \in GuardedOps
              /\ protect(resp'.tok, users) = 0)
             => (resp'.status = 403
                    <=> users[resp'.tok.sub].role \notin RouteGuard(resp'.op))
          /\ \A r \in BagToSet(inflight') :
                (CopiesIn(r, inflight') > CopiesIn(r, inflight)
                    /\ r.op \in GuardedOps)
                => /\ protect(r.tok, users) = 0
                   /\ users[r.tok.sub].role \in RouteGuard(r.op)]_vars

\* the admin of the start was made a user and the item creation sent with
\* the admin's token afterwards was answered 403
StoredRoleDecidesWitness ==
    /\ resp.op = "createItem" /\ resp.status = 403
    /\ resp.tok = ValidToken("u2")
    /\ users["u2"].role = "user" /\ users["u2"].isActive

\* C28: a status-set or toggle-activation request changes nothing but the
\* active flag of its target user: every step of such a request leaves the
\* items, the other users and the target's other fields as they are, so
\* the items the target created keep their active flag.
StatusWritesOnlyActiveFlag ==
    [][/\ \A r \in InFlight :
             (/\ r.op \in {"updateUserStatus", "toggleActivation"}
              /\ CopiesIn(r, inflight') < CopiesIn(r, inflight))
             => /\ items' = items
                /\ \A u \in Users \ {r.target} : users'[u] = users[u]
                /\ users' = [users EXCEPT ![r.target].isActive =
                                              users'[r.target].isActive]
       /\ (\/ \E r \in BagToSet(inflight') :
                 /\ r.op \in {"updateUserStatus", "toggleActivation"}
                 /\ CopiesIn(r, inflight') > CopiesIn(r, inflight)
           \/ /\ received' = received + 1 /\ inflight' = inflight
              /\ resp'.op \in {"updateUserStatus", "toggleActivation"})
          => items' = items /\ users' = users]_vars

\* the admin was deactivated by a status-set answered 200 and the item the
\* admin created is still active
StatusWritesOnlyActiveFlagWitness ==
    /\ resp.op = "updateUserStatus" /\ resp.status = 200
    /\ ~users["u2"].isActive /\ users["u2"].role = "admin"
    /\ \E i \in Items :
          items[i].exists /\ items[i].createdBy = "u2" /\ items[i].isActive

\* C29: for the role of the user the client has signed in, each copy of the
\* policy (the PERMISSIONS table, getRolePermissions, the Item methods
\* canEdit and canDelete) grants a capability exactly when the guards of
\* the backend routes for that capability let the role pass; none grants
\* delete to admin.
PolicyCopiesMatchGuards ==
    browser.isAuthenticated =>
        /\ \A cap \in Capabilities :
              LET granted == \A op \in GuardedOps :
                                 RouteCapability(op) = cap
                                     => checkRole(RouteGuard(op), browser.role) = 0
              IN  /\ PERMISSIONS(browser.role, cap) <=> granted
                  /\ getRolePermissions(browser.role, cap) <=> granted
        /\ canEdit(browser.role)
              <=> checkRole(RouteGuard("updateItem"), browser.role) = 0
        /\ itemCanDelete(browser.role)
              <=> checkRole(RouteGuard("deleteItem"), browser.role) = 0

\* C30: when auth initialization ends, the loading flag is false; the
\* client is authenticated only if the verification call was answered with
\* success; and if it is not authenticated, a token that was stored when
\* the page loaded has been removed from localStorage.
InitializationEndsClean ==
    [][(browser.pc # "done" /\ browser'.pc = "done") =>
          /\ ~browser'.loading
          /\ browser'.isAuthenticated =>
                /\ browser.pc = "verifying"
                /\ browser.init.answer.status = 200
          /\ (~browser'.isAuthenticated /\ browser.token # NoToken)
                => browser'.token = NoToken]_vars

====
